---- MODULE Spec2Model ----
(***************************************************************************)
(* A model of backend/main.py of the RTSP violence-detection service:      *)
(* the per-stream capture and detection threads of RTSPProcessor with the  *)
(* frame buffer they share, TritonClient.predict, and the notification     *)
(* throttle of TelegramService.                                            *)
(*                                                                         *)
(* Conventions.  A frame is the number of the read that produced it (the   *)
(* n-th frame the video source of a stream delivered).  Probabilities and  *)
(* the confidence threshold are percentages (0.7 is 70).  Times are whole  *)
(* seconds.  The adaptive interval, base * (1 + count * 0.5), may be a     *)
(* half-integer: the model carries twice its value.                        *)
(***************************************************************************)
EXTENDS Integers, Sequences, FiniteSets, TLC

\* ------------------------------------------------------------------ bounds
\* frames the video source of one stream delivers
MaxFrames == 3
\* largest system_settings.buffer_size that is enumerated
MaxCap == 2
\* threads of one kind that a stream has alive at once
MaxThreads == 1
\* results waiting in one stream's results_queue
MaxResults == 1
\* positive detections counted in one run of a stream
MaxDetections == 1

\* the latest time.time() the stream registry runs to
MaxClock == 1

\* detections handed to TelegramService.handle_detection
MaxFed == 3
\* the latest time.time() that is enumerated
MaxTime == 3600
\* largest TelegramSettings.max_notifications that is enumerated
MaxNotify == 1

StreamIds == {"cam1"}
\* every stream a registry holds in some specification below: StreamIds
\* and, where two streams run side by side, a second one
AllStreams == StreamIds \cup {"cam2"}
\* the ids that calls of RTSPManager name: those of the streams, and one
\* that no add_stream names
RequestIds == StreamIds \cup {"cam9"}
BufferSizes == 0..MaxCap
FrameSkips == {1, 2}
Thresholds == {70}
Probs == {65, 80}
\* the streams, confidences and time steps of the detections that are
\* handed to TelegramService.handle_detection
AlertStreams == {"cam1", "cam2"}
EventConfidences == {80, 90}
QuietConfidences == {65}
TimeSteps == {0, 300, 1800}
Intervals == {300, 1500}

Max(a, b) == IF a >= b THEN a ELSE b
Min(a, b) == IF a <= b THEN a ELSE b

VARIABLES
    \* system_settings
    buffer_size, frame_skip, confidence_threshold,
    \* RTSPManager.streams (its keys) and the fields of each RTSPProcessor
    streams, is_running, detection_running, shutdown_event, frame_buffer,
    total_frames, fps, detection_count, last_detection, start_time,
    results_queue, cap, triton_client,
    \* the threads start() has spawned for a stream, oldest first; the last
    \* one is the thread _frame_thread / detection_thread refers to
    frame_threads, detection_threads,
    \* the call that is executing on the event-loop thread
    api,
    \* the video source: frames it has delivered so far
    source_pos,
    \* history: the frames pushed into the buffer since it was last cleared
    pushed,
    \* time.time()
    now,
    \* TelegramService
    enabled, notification_interval, max_notifications, violence_events,
    last_notification_time, current_detection_confidence,
    \* the send_final_notification tasks created and not yet run, oldest
    \* first
    final_tasks,
    \* history: the messages handed to send_message, oldest first
    sent,
    \* whether the Telegram API answers a request with status 200, and as
    \* history the messages it has accepted, oldest first
    transport_up, delivered,
    \* history: the number of detections handed to handle_detection, the
    \* last of them, and per stream the flag of its last one and its
    \* episodes (the maximal runs of event detections) with the detection
    \* that opened and the one that closed each
    n_fed, fed, last_flag, episodes,
    \* one call of a pure function with its arguments and, once it has
    \* returned, its result
    call,
    \* history: the last call of RTSPManager that returned False
    rejected,
    \* ConnectionManager.active_connections, a list of WebSocket objects
    active_connections,
    \* per WebSocket, the position of its websocket_endpoint coroutine and
    \* what the client at its other end is doing
    endpoint, peer,
    \* the broadcast_detection_results task: its position, the detections it
    \* has drained in this cycle and the one it is at, and the locals of the
    \* broadcast call it is in; as history, whether the except clause has
    \* ended the cycle (caught) or the one before (after_error), the list
    \* of connections when the broadcast was called (start), and the calls
    \* of broadcast and handle_detection that have returned in this cycle
    \* (done)
    orch,
    \* history: per WebSocket, the messages sent to it in the current cycle
    \* of broadcast_detection_results
    received,
    \* per stream: the thread that holds buffer_lock ("free" when none), the
    \* position of each thread that uses the lock inside or outside its with
    \* block, and the locals of those blocks
    buffer_lock, at, locals

stream_vars == <<streams, is_running, detection_running, shutdown_event,
                 frame_buffer, total_frames, fps, detection_count,
                 last_detection,
                 start_time, results_queue, cap, triton_client, frame_threads,
                 detection_threads, api, source_pos, pushed>>
settings_vars == <<buffer_size, frame_skip, confidence_threshold>>

telegram_vars == <<enabled, notification_interval, max_notifications,
                   violence_events, last_notification_time,
                   current_detection_confidence, final_tasks, sent,
                   transport_up, delivered>>
history_vars == <<n_fed, fed, last_flag, episodes, call, rejected>>
hub_vars == <<active_connections, endpoint, peer, orch, received>>
lock_vars == <<buffer_lock, at, locals>>

vars == <<settings_vars, stream_vars, now, telegram_vars, history_vars,
          hub_vars, lock_vars>>

\* ------------------------------------------------------- pure functions

\* Python's lst[-n:]: the last n elements for n > 0, and the WHOLE list for
\* n = 0 (-0 is 0, so the slice is lst[0:]); lst[k:] for n = -k < 0.
PySliceLast(lst, n) ==
    IF n = 0 THEN lst
    ELSE IF n > 0 THEN SubSeq(lst, Max(1, Len(lst) - n + 1), Len(lst))
    ELSE SubSeq(lst, (0 - n) + 1, Len(lst))

\* process_frame, under buffer_lock: append, then trim when over the size
\* read from system_settings at that moment.
PushFrame(buf, frame, size) ==
    LET appended == Append(buf, frame)
    IN  IF Len(appended) > size THEN PySliceLast(appended, size) ELSE appended

\* The flag with the threshold itself taken as an event.
IsViolenceAtThreshold(violence_prob, threshold) == violence_prob >= threshold

\* TritonClient.predict: the flag derived from the violence probability.
IsViolence(violence_prob, threshold) == violence_prob > threshold

\* The try block of TritonClient.predict (lines 167-196) on a client object
\* whose self.client is set ("connected") or None ("disconnected"):
\* connect_ok and infer_ok are the backend's answers, prob its probability.
\* connect() is called only when self.client is None, before the call;
\* raises tells whether the block is left by an exception (the RuntimeError
\* of line 169, or the one of self.client.infer), connects counts the calls
\* of connect().
PredictTry(client, connect_ok, infer_ok, prob, threshold) ==
    IF client = "disconnected" /\ ~connect_ok
    THEN [raises |-> TRUE, connects |-> 1, client |-> "disconnected",
          is_violence |-> FALSE, confidence |-> 0]
    ELSE LET connects == IF client = "disconnected" THEN 1 ELSE 0
         IN  IF ~infer_ok
             THEN [raises |-> TRUE, connects |-> connects,
                   client |-> "connected", is_violence |-> FALSE,
                   confidence |-> 0]
             ELSE [raises |-> FALSE, connects |-> connects,
                   client |-> "connected",
                   is_violence |-> IsViolence(prob, threshold),
                   confidence |-> prob]

\* TritonClient.predict(frame_sequence): the try block, and the except
\* clause of lines 198-200, which catches any exception and gives
\* (False, 0.0) without another call of connect() or of infer.
Predict(client, connect_ok, infer_ok, prob, threshold) ==
    LET r == PredictTry(client, connect_ok, infer_ok, prob, threshold)
    IN  [is_violence |-> IF r.raises THEN FALSE ELSE r.is_violence,
         confidence |-> IF r.raises THEN 0 ELSE r.confidence,
         client |-> r.client, connects |-> r.connects, raised |-> FALSE]

\* A DetectionResult, without its thumbnail (frame_data).
NoResult == [stream_id |-> "", timestamp |-> 0, is_violence |-> FALSE,
             confidence |-> 0]

NewFrameThread == [pc |-> "connect"]
NewDetectionThread == [pc |-> "init", cbs |-> 0, window |-> <<>>,
                       client |-> "none"]

\* pcs at which a thread is inside a call that may block for longer than
\* the join timeout of stop()
FrameBlocked(t) == t.pc \in {"connect", "read"}
DetectionBlocked(t) == t.pc \in {"init", "infer"}

\* Thread.is_alive()
Alive(t) == t.pc # "dead"

\* The threads of one kind of a stream are kept as the older threads that
\* are still alive, followed by the thread the processor refers to
\* (_frame_thread, detection_thread), alive or dead.
RemoveAt(ts, i) ==
    [k \in 1..(Len(ts) - 1) |-> IF k < i THEN ts[k] ELSE ts[k + 1]]

\* Thread i of ts has returned.
Exited(ts, i, dead) ==
    IF i = Len(ts) THEN [ts EXCEPT ![i] = dead] ELSE RemoveAt(ts, i)

\* A Thread object that is made and never started.
SpawnedUnstarted(ts, new) == ts

\* threading.Thread(...).start(), assigned to the processor's field.
Spawned(ts, new) ==
    IF ts # <<>> /\ ~Alive(ts[Len(ts)])
    THEN [ts EXCEPT ![Len(ts)] = new]
    ELSE Append(ts, new)

DeadFrameThread == [pc |-> "dead"]
DeadDetectionThread == [pc |-> "dead", cbs |-> 0, window |-> <<>>,
                        client |-> "none"]

\* --------------------------------------------------- TelegramService

\* TelegramService.__init__ (lines 618-619) and the clamp of line 744
NotificationIntervalDefault == 300
MaxNotificationsDefault == 5
MaxAdaptiveInterval == 1800

\* current_detection_confidence before handle_detection has set it
\* (should_send_notification tests hasattr)
Unset == 0 - 1

\* The deletion left out.
WithoutNothing(d, key) == d

\* del d[key]
Without(d, key) == [k \in (DOMAIN d) \ {key} |-> d[k]]

\* d[key] = value
With(d, key, value) ==
    [k \in (DOMAIN d) \cup {key} |-> IF k = key THEN value ELSE d[k]]

\* An interval that shrinks as the count grows.
AdaptiveInterval2Narrowing(base_interval, notification_count) ==
    Min(base_interval * 2, 2 * MaxAdaptiveInterval)
        \div (1 + notification_count)

\* The interval without its clamp.
AdaptiveInterval2Unclamped(base_interval, notification_count) ==
    base_interval * (2 + notification_count)

\* Lines 740-744, doubled: twice min(base * (1 + count * 0.5), 1800).
AdaptiveInterval2(base_interval, notification_count) ==
    Min(base_interval * (2 + notification_count), 2 * MaxAdaptiveInterval)

\* The comparison made strict.
IntervalElapsedStrict(time_since_last, base_interval, notification_count) ==
    2 * time_since_last > AdaptiveInterval2(base_interval, notification_count)

\* Line 746: time_since_last >= adaptive_interval.
IntervalElapsed(time_since_last, base_interval, notification_count) ==
    2 * time_since_last >= AdaptiveInterval2(base_interval, notification_count)

\* The event record of a new episode (lines 714-719).
NewEvent(current_time) ==
    [start_time |-> current_time, last_detection |-> current_time,
     notification_count |-> 0, max_confidence |-> 0]

\* Lines 728-729.
UpdatedMaxConfidence(max_confidence, confidence) ==
    IF confidence # Unset THEN Max(max_confidence, confidence)
    ELSE max_confidence

\* The limit tested one notification late.
LimitReachedAbove(notification_count, limit) == notification_count > limit

\* Line 736: no further notification for this episode.
LimitReached(notification_count, limit) == notification_count >= limit

\* should_send_notification(stream_id, is_violence) at current_time, on the
\* dictionaries ev (violence_events) and lnt (last_notification_time):
\* the value returned, the dictionaries afterwards, and the
\* send_final_notification tasks created.
ShouldSendNotification(ev, lnt, confidence, interval, limit, stream_id, is_violence, current_time) ==
    IF ~is_violence
    THEN [send |-> FALSE,
          violence_events |->
              IF stream_id \in DOMAIN ev THEN Without(ev, stream_id) ELSE ev,
          last_notification_time |->
              IF stream_id \in DOMAIN lnt THEN Without(lnt, stream_id)
              ELSE lnt,
          tasks |->
              IF stream_id \in DOMAIN ev
              THEN << [stream_id |-> stream_id,
                       duration |-> current_time - ev[stream_id].start_time,
                       event_info |-> ev[stream_id]] >>
              ELSE << >>]
    ELSE IF stream_id \notin DOMAIN ev
    THEN [send |-> TRUE,
          violence_events |-> With(ev, stream_id, NewEvent(current_time)),
          last_notification_time |-> With(lnt, stream_id, current_time),
          tasks |-> << >>]
    ELSE LET seen == [ev[stream_id] EXCEPT
                        !.last_detection = current_time,
                        !.max_confidence =
                            UpdatedMaxConfidence(@, confidence)]
             last_notification ==
                 IF stream_id \in DOMAIN lnt THEN lnt[stream_id] ELSE 0
             time_since_last == current_time - last_notification
         IN  IF LimitReached(seen.notification_count, limit)
             THEN [send |-> FALSE,
                   violence_events |-> With(ev, stream_id, seen),
                   last_notification_time |-> lnt,
                   tasks |-> << >>]
             ELSE IF IntervalElapsed(time_since_last, interval,
                                     seen.notification_count)
             THEN [send |-> TRUE,
                   violence_events |-> With(ev, stream_id,
                       [seen EXCEPT !.notification_count = @ + 1]),
                   last_notification_time |->
                       With(lnt, stream_id, current_time),
                   tasks |-> << >>]
             ELSE [send |-> FALSE,
                   violence_events |-> With(ev, stream_id, seen),
                   last_notification_time |-> lnt,
                   tasks |-> << >>]

\* The first continuing notification worded as a start.
MessageKindLateStart(ev, stream_id) ==
    IF stream_id \notin DOMAIN ev THEN "alert"
    ELSE IF ev[stream_id].notification_count <= 1 THEN "started"
    ELSE "ongoing"

\* handle_detection's choice of the message (lines 766-795).
MessageKind(ev, stream_id) ==
    IF stream_id \notin DOMAIN ev THEN "alert"
    ELSE IF ev[stream_id].notification_count = 0 THEN "started"
    ELSE IF ev[stream_id].notification_count = 1 THEN "continues"
    ELSE "ongoing"

\* The message handle_detection hands to send_message; seq is the number
\* of the detection that caused it.
Message(ev, stream_id, seq) ==
    [kind |-> MessageKind(ev, stream_id), stream_id |-> stream_id,
     seq |-> seq,
     notification_count |->
         IF stream_id \in DOMAIN ev THEN ev[stream_id].notification_count
         ELSE 0,
     max_confidence |->
         IF stream_id \in DOMAIN ev THEN ev[stream_id].max_confidence
         ELSE 0]

\* The message of send_final_notification (lines 805-817).
FinalMessage(task) ==
    [kind |-> "ended", stream_id |-> task.stream_id, seq |-> task.seq,
     notification_count |-> task.event_info.notification_count,
     max_confidence |-> task.event_info.max_confidence]

\* send_message posting again when the transport has failed.
SendMessageRetrying(log, message, ok) ==
    [sent |-> IF ok THEN Append(log.sent, message)
              ELSE Append(Append(log.sent, message), message),
     delivered |-> IF ok THEN Append(log.delivered, message)
                   ELSE log.delivered,
     returns |-> ok]

\* send_message(message) with the service enabled (lines 656-690): one
\* POST; ok is whether the transport answers with status 200.  An
\* exception of the transport is caught and, like any other status, gives
\* False; nothing is posted again and nothing is kept for later.  log is
\* the history of the messages posted and of those accepted.
SendMessage(log, message, ok) ==
    [sent |-> Append(log.sent, message),
     delivered |-> IF ok THEN Append(log.delivered, message)
                   ELSE log.delivered,
     returns |-> ok]

\* History: the episodes of a stream after one more detection, numbered
\* seq.  An episode is a maximal run of event detections of the stream.
EpisodesAfter(eps, was_event, is_violence, confidence, seq) ==
    IF is_violence /\ ~was_event
    THEN Append(eps, [opened |-> seq, closed |-> 0, peak |-> confidence])
    ELSE IF is_violence
    THEN [eps EXCEPT ![Len(eps)].peak = Max(@, confidence)]
    ELSE IF was_event
    THEN [eps EXCEPT ![Len(eps)].closed = seq]
    ELSE eps

\* handle_detection without its first test.
DisabledNever(on) == FALSE

\* Lines 755-756: handle_detection returns at once when the service is not
\* enabled.
Disabled(on) == ~on

\* handle_detection(detection), dt seconds after the last one.  It runs
\* without suspending up to its call of send_message.
HandleDetection(stream_id, is_violence, confidence, dt) ==
    /\ n_fed < MaxFed
    /\ now + dt <= MaxTime
    /\ now' = now + dt
    /\ n_fed' = n_fed + 1
    /\ fed' = [stream_id |-> stream_id, is_violence |-> is_violence,
               confidence |-> confidence]
    /\ last_flag' = [last_flag EXCEPT ![stream_id] = is_violence]
    /\ episodes' = [episodes EXCEPT ![stream_id] =
           EpisodesAfter(@, last_flag[stream_id], is_violence, confidence,
                         n_fed + 1)]
    /\ IF Disabled(enabled)
       THEN UNCHANGED <<violence_events, last_notification_time,
                        current_detection_confidence, final_tasks, sent,
                        delivered>>
       ELSE LET r == ShouldSendNotification(violence_events,
                         last_notification_time, confidence,
                         notification_interval, max_notifications,
                         stream_id, is_violence, now')
            IN  /\ current_detection_confidence' = confidence
                /\ violence_events' = r.violence_events
                /\ last_notification_time' = r.last_notification_time
                /\ final_tasks' = final_tasks \o
                       [k \in DOMAIN r.tasks |->
                           [stream_id |-> r.tasks[k].stream_id,
                            duration |-> r.tasks[k].duration,
                            event_info |-> r.tasks[k].event_info,
                            seq |-> n_fed + 1]]
                /\ LET log == [sent |-> sent, delivered |-> delivered]
                       posted == SendMessage(log,
                                     Message(r.violence_events, stream_id,
                                             n_fed + 1), transport_up)
                   IN  IF r.send
                       THEN /\ sent' = posted.sent
                            /\ delivered' = posted.delivered
                       ELSE UNCHANGED <<sent, delivered>>
    /\ UNCHANGED <<enabled, notification_interval, max_notifications,
                   transport_up>>
    /\ UNCHANGED <<settings_vars, stream_vars, call, rejected>>

\* The event loop runs the oldest send_final_notification task.
SendFinalNotification ==
    /\ final_tasks # <<>>
    /\ final_tasks' = Tail(final_tasks)
    /\ LET log == [sent |-> sent, delivered |-> delivered]
           posted == SendMessage(log, FinalMessage(Head(final_tasks)),
                                 transport_up)
       IN  IF enabled
           THEN /\ sent' = posted.sent
                /\ delivered' = posted.delivered
           ELSE UNCHANGED <<sent, delivered>>
    /\ UNCHANGED <<enabled, notification_interval, max_notifications,
                   violence_events, last_notification_time,
                   current_detection_confidence, transport_up>>
    /\ UNCHANGED <<settings_vars, stream_vars, now, history_vars,
                   hub_vars, lock_vars>>

\* TelegramService.update_settings (POST /api/settings/telegram).
UpdateTelegramSettings(on, interval, limit) ==
    /\ enabled' = on
    /\ notification_interval' = interval
    /\ max_notifications' = limit
    /\ <<on, interval, limit>> #
           <<enabled, notification_interval, max_notifications>>
    /\ UNCHANGED <<violence_events, last_notification_time,
                   current_detection_confidence, final_tasks, sent,
                   transport_up, delivered>>
    /\ UNCHANGED <<settings_vars, stream_vars, now, history_vars,
                   hub_vars, lock_vars>>

\* The Telegram API, or the network to it, goes down or comes back.
TransportChanges ==
    /\ transport_up' = ~transport_up
    /\ UNCHANGED <<enabled, notification_interval, max_notifications,
                   violence_events, last_notification_time,
                   current_detection_confidence, final_tasks, sent,
                   delivered>>
    /\ UNCHANGED <<settings_vars, stream_vars, now, history_vars,
                   hub_vars, lock_vars>>

\* ------------------------------------------------------------------ Init

\* the event-loop thread between two calls
Idle == [op |-> "idle", id |-> "", caller |-> ""]

NotRejected == [op |-> "none", id |-> ""]

InitProcessors ==
    /\ is_running = [s \in AllStreams |-> FALSE]
    /\ detection_running = [s \in AllStreams |-> FALSE]
    /\ shutdown_event = [s \in AllStreams |-> FALSE]
    /\ frame_buffer = [s \in AllStreams |-> <<>>]
    /\ total_frames = [s \in AllStreams |-> 0]
    /\ fps = [s \in AllStreams |-> "zero"]
    /\ detection_count = [s \in AllStreams |-> 0]
    /\ last_detection = [s \in AllStreams |-> NoResult]
    /\ start_time = [s \in AllStreams |-> 0]
    /\ results_queue = [s \in AllStreams |-> <<>>]
    /\ cap = [s \in AllStreams |-> "none"]
    /\ triton_client = [s \in AllStreams |-> "none"]
    /\ frame_threads = [s \in AllStreams |-> <<>>]
    /\ detection_threads = [s \in AllStreams |-> <<>>]
    /\ api = Idle
    /\ source_pos = [s \in AllStreams |-> 0]
    /\ pushed = [s \in AllStreams |-> <<>>]
    /\ rejected = NotRejected

\* The registry after add_stream for every stream.
InitStreams ==
    /\ streams = StreamIds
    /\ InitProcessors

\* system_settings is loaded from system_settings.json without any range
\* check: buffer_size and the others are whatever integers the file (or a
\* POST /api/settings) holds.
InitSettings ==
    /\ buffer_size \in BufferSizes
    /\ frame_skip \in FrameSkips
    /\ confidence_threshold \in Thresholds

\* TelegramService.__init__, then update_settings with what the settings
\* file holds.
InitTelegram ==
    /\ violence_events = <<>>
    /\ last_notification_time = <<>>
    /\ current_detection_confidence = Unset
    /\ final_tasks = <<>>
    /\ sent = <<>>
    /\ transport_up = TRUE
    /\ delivered = <<>>
    /\ n_fed = 0
    /\ fed = [stream_id |-> "", is_violence |-> FALSE, confidence |-> 0]
    /\ last_flag = [s \in AlertStreams |-> FALSE]
    /\ episodes = [s \in AlertStreams |-> <<>>]

NoCall == [op |-> "none"]

\* the largest number of results pending in a queue when the orchestrator
\* starts
MaxPending == 2

\* The clients that open /ws, one WebSocket object each.
WebSockets == {"ws1", "ws2"}

\* broadcast_detection_results in its first asyncio.sleep, before any cycle.
OrchestratorStart ==
    [pc |-> "sleep", detections |-> <<>>, k |-> 0,
     message |-> [type |-> "none"],
     idx |-> 0, target |-> "none", disconnected |-> <<>>,
     caught |-> FALSE, after_error |-> FALSE, start |-> <<>>,
     done |-> <<>>]

\* ConnectionManager.__init__ and the task created by lifespan; no client
\* has opened /ws yet.
InitHub ==
    /\ active_connections = <<>>
    /\ endpoint = [w \in WebSockets |-> "new"]
    /\ peer = [w \in WebSockets |-> "up"]
    /\ orch = OrchestratorStart
    /\ received = [w \in WebSockets |-> <<>>]

\* the threads that take buffer_lock of a stream: its capture thread
\* (process_frame), its detection thread (detection_loop, detect_violence)
\* and the event-loop thread (start, the frame WebSocket)
LockUsers == {"capture", "detection", "loop"}

NoLocals == [frame |-> 0, before |-> <<>>, buffer_size |-> 0,
             frame_buffer_copy |-> [frames |-> <<>>, shared |-> FALSE],
             last_frame |-> 0]

InitLock ==
    /\ buffer_lock = [s \in AllStreams |-> "free"]
    /\ at = [s \in AllStreams |-> [t \in LockUsers |-> "out"]]
    /\ locals = [s \in AllStreams |-> NoLocals]

Init ==
    /\ InitSettings
    /\ InitStreams
    /\ now = 0
    /\ enabled = FALSE
    /\ notification_interval = NotificationIntervalDefault
    /\ max_notifications = MaxNotificationsDefault
    /\ InitTelegram
    /\ InitHub
    /\ InitLock
    /\ call = NoCall

\* ------------------------------------------------ RTSPProcessor.start/stop

\* start(), called from an API handler on the event-loop thread, with at
\* most limit threads of each kind of the stream alive afterwards.
StartWithin(s, limit) ==
    /\ api.op = "idle"
    /\ s \in streams
    /\ IF ~is_running[s]
       THEN /\ Len(Spawned(frame_threads[s], NewFrameThread)) <= limit
            /\ Len(Spawned(detection_threads[s], NewDetectionThread))
                   <= limit
            /\ shutdown_event' = [shutdown_event EXCEPT ![s] = FALSE]
            /\ frame_buffer' = [frame_buffer EXCEPT ![s] = <<>>]
            /\ pushed' = [pushed EXCEPT ![s] = <<>>]
            /\ total_frames' = [total_frames EXCEPT ![s] = 0]
            /\ fps' = [fps EXCEPT ![s] = "zero"]
            /\ detection_count' = [detection_count EXCEPT ![s] = 0]
            /\ last_detection' = [last_detection EXCEPT ![s] = NoResult]
            /\ start_time' = [start_time EXCEPT ![s] = now]
            /\ is_running' = [is_running EXCEPT ![s] = TRUE]
            /\ detection_running' = [detection_running EXCEPT ![s] = TRUE]
            /\ frame_threads' = [frame_threads EXCEPT
                                   ![s] = Spawned(@, NewFrameThread)]
            /\ detection_threads' = [detection_threads EXCEPT
                                   ![s] = Spawned(@, NewDetectionThread)]
            /\ UNCHANGED <<streams, results_queue, cap, triton_client, api,
                           source_pos>>
       ELSE UNCHANGED stream_vars
    /\ UNCHANGED <<settings_vars, now, telegram_vars, history_vars,
                   hub_vars, lock_vars>>

\* start() with the test of is_running guarding only the threads.
StartResetsAgain(s) ==
    /\ api.op = "idle"
    /\ s \in streams
    /\ IF ~is_running[s]
       THEN /\ Len(Spawned(frame_threads[s], NewFrameThread)) <= MaxThreads
            /\ Len(Spawned(detection_threads[s], NewDetectionThread))
                   <= MaxThreads
            /\ shutdown_event' = [shutdown_event EXCEPT ![s] = FALSE]
            /\ frame_buffer' = [frame_buffer EXCEPT ![s] = <<>>]
            /\ pushed' = [pushed EXCEPT ![s] = <<>>]
            /\ total_frames' = [total_frames EXCEPT ![s] = 0]
            /\ fps' = [fps EXCEPT ![s] = "zero"]
            /\ detection_count' = [detection_count EXCEPT ![s] = 0]
            /\ last_detection' = [last_detection EXCEPT ![s] = NoResult]
            /\ start_time' = [start_time EXCEPT ![s] = now]
            /\ is_running' = [is_running EXCEPT ![s] = TRUE]
            /\ detection_running' = [detection_running EXCEPT ![s] = TRUE]
            /\ frame_threads' = [frame_threads EXCEPT
                                   ![s] = Spawned(@, NewFrameThread)]
            /\ detection_threads' = [detection_threads EXCEPT
                                   ![s] = Spawned(@, NewDetectionThread)]
            /\ UNCHANGED <<streams, results_queue, cap, triton_client, api,
                           source_pos>>
       ELSE /\ frame_buffer' = [frame_buffer EXCEPT ![s] = <<>>]
            /\ pushed' = [pushed EXCEPT ![s] = <<>>]
            /\ total_frames' = [total_frames EXCEPT ![s] = 0]
            /\ fps' = [fps EXCEPT ![s] = "zero"]
            /\ detection_count' = [detection_count EXCEPT ![s] = 0]
            /\ last_detection' = [last_detection EXCEPT ![s] = NoResult]
            /\ start_time' = [start_time EXCEPT ![s] = now]
            /\ UNCHANGED <<streams, is_running, detection_running,
                           shutdown_event, results_queue, cap,
                           triton_client, frame_threads, detection_threads,
                           api, source_pos>>
    /\ UNCHANGED <<settings_vars, now, telegram_vars, history_vars,
                   hub_vars, lock_vars>>

\* start(): called from an API handler, on the event-loop thread.
Start(s) == StartWithin(s, MaxThreads)

\* stop() leaving detection_running as it is.
StopFlagsKeepsDetecting(s, caller) ==
    /\ api.op = "idle"
    /\ s \in streams
    /\ shutdown_event' = [shutdown_event EXCEPT ![s] = TRUE]
    /\ is_running' = [is_running EXCEPT ![s] = FALSE]
    /\ UNCHANGED detection_running
    /\ api' = [op |-> "join_frame", id |-> s, caller |-> caller]
    /\ UNCHANGED <<streams, start_time, frame_buffer, total_frames, fps,
                   detection_count, last_detection, results_queue, cap,
                   triton_client, frame_threads, detection_threads,
                   source_pos, pushed>>
    /\ UNCHANGED <<settings_vars, now, telegram_vars, history_vars,
                   hub_vars, lock_vars>>

\* stop(), first part: the flags (lines 471-475); caller is the method of
\* RTSPManager that called stop().
StopFlags(s, caller) ==
    /\ api.op = "idle"
    /\ s \in streams
    /\ shutdown_event' = [shutdown_event EXCEPT ![s] = TRUE]
    /\ is_running' = [is_running EXCEPT ![s] = FALSE]
    /\ detection_running' = [detection_running EXCEPT ![s] = FALSE]
    /\ api' = [op |-> "join_frame", id |-> s, caller |-> caller]
    /\ UNCHANGED <<streams, start_time, frame_buffer, total_frames, fps,
                   detection_count, last_detection, results_queue, cap,
                   triton_client, frame_threads, detection_threads,
                   source_pos, pushed>>
    /\ UNCHANGED <<settings_vars, now, telegram_vars, history_vars,
                   hub_vars, lock_vars>>

\* RTSPManager.stop_detection(s) for a stream that is present.
StopSignal(s) == StopFlags(s, "stop_detection")

\* join() without its timeout.
JoinWaitsForExit(ts, blocked) ==
    IF ts = <<>> THEN TRUE ELSE ~Alive(ts[Len(ts)])

\* thread.join(timeout=3) on the thread the processor refers to (the last
\* one spawned) returns when there is none, when it is dead, or after the
\* timeout while it is inside a blocking call.
JoinReturns(ts, blocked) ==
    IF ts = <<>> THEN TRUE ELSE ~Alive(ts[Len(ts)]) \/ blocked

StopJoinFrame(s) ==
    /\ api.op = "join_frame"
    /\ api.id = s
    /\ JoinReturns(frame_threads[s],
                   FrameBlocked(frame_threads[s][Len(frame_threads[s])]))
    /\ api' = [api EXCEPT !.op = "join_detection"]
    /\ UNCHANGED <<streams, start_time, is_running, detection_running, shutdown_event,
                   frame_buffer, total_frames, fps, detection_count,
                   last_detection, results_queue, cap, triton_client,
                   frame_threads, detection_threads, source_pos, pushed>>
    /\ UNCHANGED <<settings_vars, now, telegram_vars, history_vars,
                   hub_vars, lock_vars>>

\* stop(), last part: the second join, then _safe_release_capture() and
\* triton_client = None (lines 481-491).
StopJoinDetection(s) ==
    /\ api.op = "join_detection"
    /\ api.id = s
    /\ JoinReturns(detection_threads[s],
           DetectionBlocked(detection_threads[s][Len(detection_threads[s])]))
    /\ cap' = [cap EXCEPT ![s] = "none"]
    /\ triton_client' = [triton_client EXCEPT ![s] = "none"]
    /\ api' = IF api.caller = "remove_stream"
              THEN [api EXCEPT !.op = "delete"]
              ELSE Idle
    /\ UNCHANGED <<streams, start_time, is_running, detection_running, shutdown_event,
                   frame_buffer, total_frames, fps, detection_count,
                   last_detection, results_queue, frame_threads,
                   detection_threads, source_pos, pushed>>
    /\ UNCHANGED <<settings_vars, now, telegram_vars, history_vars,
                   hub_vars, lock_vars>>

\* ------------------------------- capture thread: run_detection_loop
\* A step of a thread runs from the return of one blocking call (connect,
\* cap.read) to the start of the next.

\* The while condition and the check of the handle (lines 401-405).
CaptureContinues(running, shutdown, handle) ==
    running /\ ~shutdown /\ handle = "open"

\* connect() returns.  When the source does not open, connect() returns
\* False with self.cap left as the unopened object, and run_detection_loop
\* returns before its try/finally.  Otherwise the loop is entered: it goes
\* on to cap.read(), or leaves through the finally clause.
CaptureConnect(s, i, ok) ==
    /\ i \in DOMAIN frame_threads[s]
    /\ frame_threads[s][i].pc = "connect"
    /\ IF ~ok
       THEN /\ cap' = [cap EXCEPT ![s] = "closed"]
            /\ frame_threads' = [frame_threads EXCEPT
                                   ![s] = Exited(@, i, DeadFrameThread)]
            /\ UNCHANGED is_running
       ELSE IF CaptureContinues(is_running[s], shutdown_event[s], "open")
       THEN /\ cap' = [cap EXCEPT ![s] = "open"]
            /\ frame_threads' = [frame_threads EXCEPT ![s][i].pc = "read"]
            /\ UNCHANGED is_running
       ELSE /\ cap' = [cap EXCEPT ![s] = "none"]
            /\ frame_threads' = [frame_threads EXCEPT
                                   ![s] = Exited(@, i, DeadFrameThread)]
            /\ is_running' = [is_running EXCEPT ![s] = FALSE]
    /\ UNCHANGED <<streams, start_time, detection_running, shutdown_event,
                   frame_buffer, total_frames, fps, detection_count,
                   last_detection, results_queue, triton_client,
                   detection_threads, api, source_pos, pushed>>
    /\ UNCHANGED <<settings_vars, now, telegram_vars, history_vars,
                   hub_vars, lock_vars>>

\* A failed read answered by a new connection attempt.
CaptureReadRetries(s, i) ==
    /\ i \in DOMAIN frame_threads[s]
    /\ frame_threads[s][i].pc = "read"
    /\ cap' = [cap EXCEPT ![s] = "none"]
    /\ frame_threads' = [frame_threads EXCEPT ![s][i].pc = "connect"]
    /\ UNCHANGED is_running
    /\ UNCHANGED <<streams, start_time, detection_running, shutdown_event,
                   frame_buffer, total_frames, fps, detection_count,
                   last_detection, results_queue, triton_client,
                   detection_threads, api, source_pos, pushed>>
    /\ UNCHANGED <<settings_vars, now, telegram_vars, history_vars,
                   hub_vars, lock_vars>>

\* cap.read() returns ret = False: the loop breaks, the finally clause
\* releases the handle and clears is_running.
CaptureReadFails(s, i) ==
    /\ i \in DOMAIN frame_threads[s]
    /\ frame_threads[s][i].pc = "read"
    /\ cap' = [cap EXCEPT ![s] = "none"]
    /\ frame_threads' = [frame_threads EXCEPT
                                   ![s] = Exited(@, i, DeadFrameThread)]
    /\ is_running' = [is_running EXCEPT ![s] = FALSE]
    /\ UNCHANGED <<streams, start_time, detection_running, shutdown_event, frame_buffer,
                   total_frames, fps, detection_count, last_detection,
                   results_queue, triton_client, detection_threads, api,
                   source_pos, pushed>>
    /\ UNCHANGED <<settings_vars, now, telegram_vars, history_vars,
                   hub_vars, lock_vars>>

\* predict called inside the with block of detect_violence.
HoldsBufferLockInPredict(t) == t.pc = "infer"

\* Whether detection thread t holds buffer_lock between two of its steps.
\* The with blocks of detection_loop (lines 367-368) and of detect_violence
\* (lines 292-296) end before the TritonClient is made and predict is
\* called, and hold no blocking call: the thread is never suspended inside
\* one.
HoldsBufferLock(t) == FALSE

\* buffer_lock of stream s can be acquired.
BufferLockFree(s) ==
    \A k \in DOMAIN detection_threads[s] :
        ~HoldsBufferLock(detection_threads[s][k])

\* The test counting the frames read from one.
FrameSelectedFromOne(frames_read, current_frame_skip) ==
    (frames_read + 1) % current_frame_skip = 0

\* The decimation test of line 421 on total_frames, the number of frames
\* read since start() before this one.
FrameSelected(frames_read, current_frame_skip) ==
    frames_read % current_frame_skip = 0

\* cap.read() returns a frame (lines 407-425): every frame_skip-th frame
\* goes through process_frame, which pushes it under buffer_lock;
\* total_frames counts every frame; then the while condition again.
CaptureRead(s, i) ==
    /\ i \in DOMAIN frame_threads[s]
    /\ frame_threads[s][i].pc = "read"
    /\ source_pos[s] < MaxFrames
    /\ source_pos' = [source_pos EXCEPT ![s] = @ + 1]
    /\ LET frame == source_pos[s] + 1
       IN  IF FrameSelected(total_frames[s], frame_skip)
           THEN /\ BufferLockFree(s)
                /\ frame_buffer' = [frame_buffer EXCEPT
                                      ![s] = PushFrame(@, frame, buffer_size)]
                /\ pushed' = [pushed EXCEPT ![s] = Append(@, frame)]
           ELSE UNCHANGED <<frame_buffer, pushed>>
    /\ total_frames' = [total_frames EXCEPT ![s] = @ + 1]
    /\ \E elapsed \in BOOLEAN :
           fps' = IF elapsed THEN [fps EXCEPT ![s] = "measured"] ELSE fps
    /\ IF CaptureContinues(is_running[s], shutdown_event[s], cap[s])
       THEN UNCHANGED <<frame_threads, cap, is_running>>
       ELSE /\ cap' = [cap EXCEPT ![s] = "none"]
            /\ frame_threads' = [frame_threads EXCEPT
                                   ![s] = Exited(@, i, DeadFrameThread)]
            /\ is_running' = [is_running EXCEPT ![s] = FALSE]
    /\ UNCHANGED <<streams, start_time, detection_running, shutdown_event,
                   detection_count, last_detection, results_queue,
                   triton_client, detection_threads, api>>
    /\ UNCHANGED <<settings_vars, now, telegram_vars, history_vars,
                   hub_vars, lock_vars>>

\* ---------------------------------- detection thread: detection_loop
\* A step runs from the return of one blocking call (the connection of a
\* TritonClient, predict, time.sleep) to the start of the next.

\* TritonClient(url): the constructor calls connect().
NewTritonClient(connect_ok) ==
    IF connect_ok THEN "connected" ELSE "disconnected"

\* One TritonClient for all the processors, replaced by the thread.
DetectionInitShared(s, i, connect_ok) ==
    /\ i \in DOMAIN detection_threads[s]
    /\ detection_threads[s][i].pc = "init"
    /\ triton_client' = [o \in AllStreams |-> NewTritonClient(connect_ok)]
    /\ detection_threads' = [detection_threads EXCEPT ![s][i].pc = "loop"]
    /\ UNCHANGED <<streams, start_time, is_running, detection_running, shutdown_event,
                   frame_buffer, total_frames, fps, detection_count,
                   last_detection, results_queue, cap, frame_threads, api,
                   source_pos, pushed>>
    /\ UNCHANGED <<settings_vars, now, telegram_vars, history_vars,
                   hub_vars, lock_vars>>

\* Line 360: the thread's first statement.
DetectionInit(s, i, connect_ok) ==
    /\ i \in DOMAIN detection_threads[s]
    /\ detection_threads[s][i].pc = "init"
    /\ triton_client' = [triton_client EXCEPT
                           ![s] = NewTritonClient(connect_ok)]
    /\ detection_threads' = [detection_threads EXCEPT ![s][i].pc = "loop"]
    /\ UNCHANGED <<streams, start_time, is_running, detection_running, shutdown_event,
                   frame_buffer, total_frames, fps, detection_count,
                   last_detection, results_queue, cap, frame_threads, api,
                   source_pos, pushed>>
    /\ UNCHANGED <<settings_vars, now, telegram_vars, history_vars,
                   hub_vars, lock_vars>>

\* detection_loop's test of the buffer (lines 365-372): whether
\* detect_violence() is called in this cycle.
BufferReady(buf, current_buffer_size) == Len(buf) >= current_buffer_size

\* detect_violence's test under buffer_lock (lines 293-294): TRUE when it
\* returns None without copying the buffer.
BufferTooShort(buf, current_buffer_size) == Len(buf) < current_buffer_size

\* The while condition fails: the thread leaves through its finally clause.
DetectionExit(s, i) ==
    /\ i \in DOMAIN detection_threads[s]
    /\ detection_threads[s][i].pc = "loop"
    /\ ~(detection_running[s] /\ ~shutdown_event[s])
    /\ detection_threads' = [detection_threads EXCEPT
                               ![s] = Exited(@, i, DeadDetectionThread)]
    /\ triton_client' = [triton_client EXCEPT ![s] = "none"]
    /\ UNCHANGED <<streams, start_time, is_running, detection_running, shutdown_event,
                   frame_buffer, total_frames, fps, detection_count,
                   last_detection, results_queue, cap, frame_threads, api,
                   source_pos, pushed>>
    /\ UNCHANGED <<settings_vars, now, telegram_vars, history_vars,
                   hub_vars, lock_vars>>

\* One cycle of the while loop with a buffer that passes both tests
\* (lines 362-373 and 289-306): detect_violence copies the buffer under
\* buffer_lock, np.stack raises on an empty list (the except clause drops
\* the client), a client is created when there is none, and predict is
\* called.  A cycle with a buffer that fails a test only sleeps.
DetectionLoop(s, i, connect_ok) ==
    /\ i \in DOMAIN detection_threads[s]
    /\ detection_threads[s][i].pc = "loop"
    /\ detection_running[s] /\ ~shutdown_event[s]
    /\ BufferReady(frame_buffer[s], buffer_size)
    /\ ~BufferTooShort(frame_buffer[s], buffer_size)
    /\ IF frame_buffer[s] = <<>>
       THEN /\ triton_client' = [triton_client EXCEPT ![s] = "none"]
            /\ UNCHANGED detection_threads
       ELSE LET client == IF triton_client[s] = "none"
                          THEN NewTritonClient(connect_ok)
                          ELSE triton_client[s]
            IN  /\ triton_client' = [triton_client EXCEPT ![s] = client]
                /\ detection_threads' = [detection_threads EXCEPT
                       ![s][i] = [pc |-> "infer", cbs |-> buffer_size,
                                  window |-> frame_buffer[s],
                                  client |-> client]]
    /\ UNCHANGED <<streams, start_time, is_running, detection_running, shutdown_event,
                   frame_buffer, total_frames, fps, detection_count,
                   last_detection, results_queue, cap, frame_threads, api,
                   source_pos, pushed>>
    /\ UNCHANGED <<settings_vars, now, telegram_vars, history_vars,
                   hub_vars, lock_vars>>

\* predict returns (lines 306-348) and detection_loop enqueues the result
\* (line 375).  The handle_detection coroutine created at line 344 is never
\* awaited in this thread and so does nothing.
DetectInfer(s, i, connect_ok, infer_ok, prob) ==
    /\ i \in DOMAIN detection_threads[s]
    /\ detection_threads[s][i].pc = "infer"
    /\ Len(results_queue[s]) < MaxResults
    /\ LET t == detection_threads[s][i]
           r == Predict(t.client, connect_ok, infer_ok, prob,
                        confidence_threshold)
           result == [stream_id |-> s, timestamp |-> now,
                      is_violence |-> r.is_violence,
                      confidence |-> r.confidence]
       IN  /\ r.is_violence => detection_count[s] < MaxDetections
           /\ triton_client' = [triton_client EXCEPT
                 ![s] = IF @ = "none" THEN @ ELSE r.client]
           /\ IF r.is_violence
              THEN /\ detection_count' = [detection_count EXCEPT
                                            ![s] = @ + 1]
                   /\ last_detection' = [last_detection EXCEPT
                                            ![s] = result]
              ELSE UNCHANGED <<detection_count, last_detection>>
           /\ results_queue' = [results_queue EXCEPT
                                  ![s] = Append(@, result)]
    /\ detection_threads' = [detection_threads EXCEPT
                               ![s][i] = [NewDetectionThread EXCEPT
                                            !.pc = "loop"]]
    /\ UNCHANGED <<streams, start_time, is_running, detection_running, shutdown_event,
                   frame_buffer, total_frames, fps, cap, frame_threads, api,
                   source_pos, pushed>>
    /\ UNCHANGED <<settings_vars, now, telegram_vars, history_vars,
                   hub_vars, lock_vars>>

\* get_latest_results: the default of max_results (line 511)
MaxResultsDefault == 10

\* get_latest_results losing what it does not return.
TakeResultsAndClear(queue, max_results) ==
    [results |-> SubSeq(queue, 1, Min(Len(queue), max_results)),
     rest |-> <<>>]

\* get_latest_results(max_results) on a queue, oldest result first: the
\* results returned and those left in the queue.
TakeResults(queue, max_results) ==
    [results |-> SubSeq(queue, 1, Min(Len(queue), max_results)),
     rest |-> SubSeq(queue, Min(Len(queue), max_results) + 1, Len(queue))]

\* list.sort(key=timestamp, reverse=True), a stable sort: r is placed
\* behind the results of sorted that are not older than it.
RECURSIVE InsertDescending(_, _)
InsertDescending(sorted, r) ==
    IF sorted = <<>> THEN <<r>>
    ELSE IF Head(sorted).timestamp >= r.timestamp
    THEN <<Head(sorted)>> \o InsertDescending(Tail(sorted), r)
    ELSE <<r>> \o sorted

RECURSIVE SortDescending(_)
SortDescending(results) ==
    IF results = <<>> THEN <<>>
    ELSE InsertDescending(
             SortDescending(SubSeq(results, 1, Len(results) - 1)),
             results[Len(results)])

\* all_results of get_latest_detections before the sort: the results taken
\* from each stream, in the order of the registry's dictionary.
RECURSIVE Extended(_, _)
Extended(queues, order) ==
    IF order = <<>> THEN <<>>
    ELSE TakeResults(queues[Head(order)], MaxResultsDefault).results
             \o Extended(queues, Tail(order))

\* get_latest_detections() on the queues of the streams of order: the
\* list returned and what is left in each queue.
GetLatestDetections(queues, order) ==
    [results |-> SortDescending(Extended(queues, order)),
     left |-> [s \in DOMAIN queues |->
                  TakeResults(queues[s], MaxResultsDefault).rest]]

\* get_latest_results() on the queue of one stream, as the orchestrator's
\* get_latest_detections() calls it.
GetLatestResults(s) ==
    /\ s \in streams
    /\ results_queue[s] # <<>>
    /\ results_queue' = [results_queue EXCEPT
           ![s] = TakeResults(@, MaxResultsDefault).rest]
    /\ UNCHANGED <<streams, start_time, is_running, detection_running, shutdown_event,
                   frame_buffer, total_frames, fps, detection_count,
                   last_detection, cap, triton_client, frame_threads,
                   detection_threads, api, source_pos, pushed>>
    /\ UNCHANGED <<settings_vars, now, telegram_vars, history_vars,
                   hub_vars, lock_vars>>

\* POST /api/settings, line 953: system_settings is replaced by whatever
\* the request holds; the running threads read it on their next access.
UpdateSettings(bs, fs, th) ==
    /\ buffer_size' = bs
    /\ frame_skip' = fs
    /\ confidence_threshold' = th
    /\ UNCHANGED <<stream_vars, now, telegram_vars, history_vars,
                   hub_vars, lock_vars>>

\* ------------------------------------------------------------ RTSPManager

\* A call of RTSPManager returns False: nothing else happens.
Rejects(op, id) ==
    /\ api.op = "idle"
    /\ rejected' = [op |-> op, id |-> id]
    /\ UNCHANGED <<settings_vars, stream_vars, now, telegram_vars, n_fed,
                   fed, last_flag, episodes, call, hub_vars, lock_vars>>

\* The fields of the processor of stream id as RTSPProcessor.__init__ sets
\* them at time created.
NewProcessor(id, created) ==
    /\ is_running' = [is_running EXCEPT ![id] = FALSE]
    /\ detection_running' = [detection_running EXCEPT ![id] = FALSE]
    /\ shutdown_event' = [shutdown_event EXCEPT ![id] = FALSE]
    /\ frame_buffer' = [frame_buffer EXCEPT ![id] = <<>>]
    /\ pushed' = [pushed EXCEPT ![id] = <<>>]
    /\ total_frames' = [total_frames EXCEPT ![id] = 0]
    /\ fps' = [fps EXCEPT ![id] = "zero"]
    /\ detection_count' = [detection_count EXCEPT ![id] = 0]
    /\ last_detection' = [last_detection EXCEPT ![id] = NoResult]
    /\ start_time' = [start_time EXCEPT ![id] = created]
    /\ results_queue' = [results_queue EXCEPT ![id] = <<>>]
    /\ cap' = [cap EXCEPT ![id] = "none"]
    /\ triton_client' = [triton_client EXCEPT ![id] = "none"]
    /\ frame_threads' = [frame_threads EXCEPT ![id] = <<>>]
    /\ detection_threads' = [detection_threads EXCEPT ![id] = <<>>]

\* add_stream without its test for a duplicate.
AddStreamOverwrites(id) ==
    /\ api.op = "idle"
    /\ streams' = streams \cup {id}
    /\ NewProcessor(id, now)
    /\ UNCHANGED <<api, source_pos>>
    /\ UNCHANGED <<settings_vars, now, telegram_vars, history_vars,
                   hub_vars, lock_vars>>

\* add_stream(id, url): False for an id that is present.
AddStream(id) ==
    IF id \in streams
    THEN Rejects("add_stream", id)
    ELSE /\ api.op = "idle"
         /\ streams' = streams \cup {id}
         /\ NewProcessor(id, now)
         /\ UNCHANGED <<api, source_pos>>
         /\ UNCHANGED <<settings_vars, now, telegram_vars, history_vars,
                        hub_vars, lock_vars>>

\* remove_stream deleting the entry without stop().
RemoveStreamUnstopped(id) ==
    IF id \in streams
    THEN /\ api.op = "idle"
         /\ streams' = streams \ {id}
         /\ NewProcessor(id, 0)
         /\ UNCHANGED <<api, source_pos>>
         /\ UNCHANGED <<settings_vars, now, telegram_vars, history_vars,
                        hub_vars, lock_vars>>
    ELSE Rejects("remove_stream", id)

\* remove_stream(id): False for an id that is not present; else stop()
\* first.
RemoveStream(id) ==
    IF id \in streams
    THEN StopFlags(id, "remove_stream")
    ELSE Rejects("remove_stream", id)

\* remove_stream, line 546: del self.streams[id], after stop() has
\* returned.  Nothing in the registry refers to the processor any more:
\* its fields, and the threads that outlived the joins and can only touch
\* that object, leave the state.
RemoveStreamDelete(id) ==
    /\ api.op = "delete"
    /\ api.id = id
    /\ streams' = streams \ {id}
    /\ NewProcessor(id, 0)
    /\ api' = Idle
    /\ UNCHANGED source_pos
    /\ UNCHANGED <<settings_vars, now, telegram_vars, history_vars,
                   hub_vars, lock_vars>>

\* start_detection(id): False for an id that is not present.
StartDetection(id) ==
    IF id \in streams THEN Start(id) ELSE Rejects("start_detection", id)

\* stop_detection(id): False for an id that is not present.
StopDetection(id) ==
    IF id \in streams THEN StopSignal(id) ELSE Rejects("stop_detection", id)

\* get_all_streams(): the status of every stream of the registry.
GetAllStreams ==
    {[id |-> s, is_running |-> is_running[s],
      total_frames |-> total_frames[s],
      detection_count |-> detection_count[s],
      last_detection |-> last_detection[s]] : s \in streams}

\* time.time() advances.
Tick ==
    /\ now < MaxClock
    /\ now' = now + 1
    /\ UNCHANGED <<settings_vars, stream_vars, telegram_vars, history_vars,
                   hub_vars, lock_vars>>

\* ------------------------------------------------------ ConnectionManager
\* The coroutines of the event loop run one at a time and give way to one
\* another only at an await; a step of a coroutine runs from one await to
\* the next.

InList(lst, x) == \E j \in DOMAIN lst : lst[j] = x

\* list.remove(x) on a list that holds x: the list without its first x.
ListRemove(lst, x) ==
    RemoveAt(lst, CHOOSE j \in DOMAIN lst :
                      lst[j] = x /\ \A m \in 1..(j - 1) : lst[m] # x)

\* The last loop of broadcast (lines 609-610): list.remove for each
\* connection of disconnected in turn; list.remove raises ValueError for a
\* connection that is not in the list, and the removals made before stay.
RECURSIVE RemoveEach(_, _)
RemoveEach(connections, disconnected) ==
    IF disconnected = <<>>
    THEN [connections |-> connections, raises |-> FALSE]
    ELSE IF ~InList(connections, Head(disconnected))
    THEN [connections |-> connections, raises |-> TRUE]
    ELSE RemoveEach(ListRemove(connections, Head(disconnected)),
                    Tail(disconnected))

\* broadcast_detection_results is suspended in an await that gives way to
\* the other coroutines: asyncio.sleep, or send_text on a connection.
Awaiting == orch.pc \in {"sleep", "send"}

\* websocket_endpoint up to its first receive_text (lines 1143-1147):
\* connect() accepts the WebSocket and appends it.
EndpointConnect(w) ==
    /\ Awaiting
    /\ endpoint[w] = "new"
    /\ peer[w] = "up"
    /\ active_connections' = Append(active_connections, w)
    /\ endpoint' = [endpoint EXCEPT ![w] = "receive"]
    /\ UNCHANGED <<peer, orch, received>>
    /\ UNCHANGED <<settings_vars, stream_vars, now, telegram_vars,
                   history_vars>>
    /\ UNCHANGED lock_vars

\* The client closes its connection, or its network goes away.
ClientLeaves(w) ==
    /\ endpoint[w] = "receive"
    /\ peer[w] \in {"up", "stalled"}
    /\ peer' = [peer EXCEPT ![w] = "gone"]
    /\ UNCHANGED <<active_connections, endpoint, orch, received>>
    /\ UNCHANGED <<settings_vars, stream_vars, now, telegram_vars,
                   history_vars>>
    /\ UNCHANGED lock_vars

\* The client stops reading: a send to it does not complete.
ClientStalls(w) ==
    /\ endpoint[w] = "receive"
    /\ peer[w] = "up"
    /\ peer' = [peer EXCEPT ![w] = "stalled"]
    /\ UNCHANGED <<active_connections, endpoint, orch, received>>
    /\ UNCHANGED <<settings_vars, stream_vars, now, telegram_vars,
                   history_vars>>
    /\ UNCHANGED lock_vars

\* receive_text raises WebSocketDisconnect and the handler calls
\* disconnect() (lines 1154-1155, 595-596): list.remove, which raises
\* ValueError out of websocket_endpoint when the WebSocket is not in the
\* list.
EndpointDisconnect(w) ==
    /\ Awaiting
    /\ endpoint[w] = "receive"
    /\ peer[w] = "gone"
    /\ IF InList(active_connections, w)
       THEN /\ active_connections' = ListRemove(active_connections, w)
            /\ endpoint' = [endpoint EXCEPT ![w] = "closed"]
       ELSE /\ endpoint' = [endpoint EXCEPT ![w] = "raised"]
            /\ UNCHANGED active_connections
    /\ UNCHANGED <<peer, orch, received>>
    /\ UNCHANGED <<settings_vars, stream_vars, now, telegram_vars,
                   history_vars>>
    /\ UNCHANGED lock_vars

\* ------------------------------------------- broadcast_detection_results

\* The keys of RTSPManager.streams as a list.
RECURSIVE ListOf(_)
ListOf(set) ==
    IF set = {} THEN <<>>
    ELSE LET x == CHOOSE y \in set : TRUE
         IN  <<x>> \o ListOf(set \ {x})

DetectionMessage(detection) ==
    [type |-> "detection_result", data |-> detection]

StatusMessage == [type |-> "streams_status", data |-> GetAllStreams]

\* The call of connection_manager.broadcast(message) up to its for loop.
BeginBroadcast(o, message) ==
    [o EXCEPT !.pc = "for", !.message = message, !.idx = 0,
              !.target = "none", !.disconnected = <<>>,
              !.start = active_connections]

\* asyncio.sleep returns and a cycle begins (lines 1253-1267): the results
\* are drained and the first of them is broadcast, or the status when
\* there is none.
OrchCycle ==
    /\ orch.pc = "sleep"
    /\ LET r == GetLatestDetections(results_queue, ListOf(streams))
           o == [orch EXCEPT !.detections = r.results, !.caught = FALSE,
                             !.after_error = orch.caught, !.done = <<>>]
       IN  /\ results_queue' = r.left
           /\ orch' = IF r.results = <<>>
                      THEN BeginBroadcast([o EXCEPT !.k = 0], StatusMessage)
                      ELSE BeginBroadcast([o EXCEPT !.k = 1],
                                          DetectionMessage(r.results[1]))
    /\ received' = [w \in WebSockets |-> <<>>]
    /\ UNCHANGED <<streams, start_time, is_running, detection_running,
                   shutdown_event, frame_buffer, total_frames, fps,
                   detection_count, last_detection, cap, triton_client,
                   frame_threads, detection_threads, api, source_pos,
                   pushed>>
    /\ UNCHANGED <<active_connections, endpoint, peer>>
    /\ UNCHANGED <<settings_vars, now, telegram_vars, history_vars>>
    /\ UNCHANGED lock_vars

\* The for loop of broadcast takes the next connection of the list (line
\* 602; the iterator holds an index into the list itself) and calls
\* send_text on it.
BroadcastNext ==
    /\ orch.pc = "for"
    /\ orch.idx < Len(active_connections)
    /\ orch' = [orch EXCEPT !.pc = "send", !.idx = @ + 1,
                            !.target = active_connections[orch.idx + 1]]
    /\ UNCHANGED <<active_connections, endpoint, peer, received>>
    /\ UNCHANGED <<settings_vars, stream_vars, now, telegram_vars,
                   history_vars>>
    /\ UNCHANGED lock_vars

\* send_text returns: the message has gone to the client.
BroadcastSent ==
    /\ orch.pc = "send"
    /\ peer[orch.target] = "up"
    /\ received' = [received EXCEPT
                      ![orch.target] = Append(@, orch.message)]
    /\ orch' = [orch EXCEPT !.pc = "for", !.target = "none"]
    /\ UNCHANGED <<active_connections, endpoint, peer>>
    /\ UNCHANGED <<settings_vars, stream_vars, now, telegram_vars,
                   history_vars>>
    /\ UNCHANGED lock_vars

\* send_text raises (lines 605-606).  Nothing bounds the time send_text
\* takes: with a client that has stalled it does not return.
BroadcastSendFails ==
    /\ orch.pc = "send"
    /\ peer[orch.target] = "gone"
    /\ orch' = [orch EXCEPT !.pc = "for", !.target = "none",
                            !.disconnected = Append(@, orch.target)]
    /\ UNCHANGED <<active_connections, endpoint, peer, received>>
    /\ UNCHANGED <<settings_vars, stream_vars, now, telegram_vars,
                   history_vars>>
    /\ UNCHANGED lock_vars

\* The except clause of the loop ending it.
CaughtEndsLoop(o) == [o EXCEPT !.pc = "ended", !.caught = TRUE]

\* The except clause of broadcast_detection_results (lines 1282-1284):
\* the cycle is abandoned and the loop sleeps before its next cycle.
Caught(o) == [o EXCEPT !.pc = "sleep", !.caught = TRUE]

\* What follows a broadcast that has returned (lines 1269-1281): the
\* detection is handed to handle_detection; after the status the loop
\* sleeps.
AfterBroadcast(o) ==
    LET logged == [o EXCEPT !.done = Append(@, [op |-> "broadcast",
                                               message |-> o.message])]
    IN  IF o.message.type = "detection_result"
        THEN [logged EXCEPT !.pc = "feed"]
        ELSE [logged EXCEPT !.pc = "sleep"]

\* The for loop of broadcast is over (the index has reached the end of the
\* list as it is now); the connections whose send raised are removed.
BroadcastCleanup ==
    /\ orch.pc = "for"
    /\ orch.idx >= Len(active_connections)
    /\ LET r == RemoveEach(active_connections, orch.disconnected)
       IN  /\ active_connections' = r.connections
           /\ orch' = IF r.raises THEN Caught(orch) ELSE AfterBroadcast(orch)
    /\ UNCHANGED <<endpoint, peer, received>>
    /\ UNCHANGED <<settings_vars, stream_vars, now, telegram_vars,
                   history_vars>>
    /\ UNCHANGED lock_vars

\* handle_detection(detection) (line 1270-1271), then the broadcast of the
\* next detection, or of the status after the last one.
OrchFeed ==
    /\ orch.pc = "feed"
    /\ LET d == orch.detections[orch.k]
           o == [orch EXCEPT !.done = Append(@, [op |-> "handle_detection",
                                                  message |-> d])]
       IN  /\ HandleDetection(d.stream_id, d.is_violence, d.confidence, 0)
           /\ orch' = IF orch.k < Len(orch.detections)
                      THEN BeginBroadcast(
                               [o EXCEPT !.k = @ + 1],
                               DetectionMessage(orch.detections[orch.k + 1]))
                      ELSE BeginBroadcast(o, StatusMessage)
    /\ UNCHANGED <<active_connections, endpoint, peer, received>>
    /\ UNCHANGED lock_vars

\* --------------------------------------------------------- specifications

ThreadIds == 1..MaxThreads

\* the steps of the threads of stream s, of a stop() under way and of the
\* reader of its results
ProcessorNext(s) ==
        \/ StopJoinFrame(s)
        \/ StopJoinDetection(s)
        \/ GetLatestResults(s)
        \/ \E i \in ThreadIds :
            \/ \E ok \in BOOLEAN : CaptureConnect(s, i, ok)
            \/ CaptureReadFails(s, i)
            \/ CaptureRead(s, i)
            \/ \E ok \in BOOLEAN : DetectionInit(s, i, ok)
            \/ DetectionExit(s, i)
            \/ \E ok \in BOOLEAN : DetectionLoop(s, i, ok)
            \/ \E c \in BOOLEAN, ok \in BOOLEAN, p \in Probs :
                   DetectInfer(s, i, c, ok, p)

StreamNext ==
    \E s \in StreamIds :
        \/ Start(s)
        \/ StopSignal(s)
        \/ ProcessorNext(s)

\* The stream processor with the settings fixed at their initial values.
NextPushes == StreamNext

SpecPushes == Init /\ [][NextPushes]_vars

\* The stream processor under live reconfiguration.
Next ==
    \/ StreamNext
    \/ \E bs \in BufferSizes, fs \in FrameSkips, th \in Thresholds :
           UpdateSettings(bs, fs, th)

Spec == Init /\ [][Next]_vars

\* Two streams side by side, started and never stopped, with the settings
\* fixed: the steps of their threads and of the reader of their results.
InitPair ==
    /\ buffer_size = MaxCap
    /\ frame_skip = 1
    /\ confidence_threshold = 70
    /\ streams = AllStreams
    /\ InitProcessors
    /\ now = 0
    /\ enabled = FALSE
    /\ notification_interval = NotificationIntervalDefault
    /\ max_notifications = MaxNotificationsDefault
    /\ InitTelegram
    /\ InitHub
    /\ InitLock
    /\ call = NoCall

NextPair ==
    \E s \in AllStreams :
        \/ Start(s)
        \/ GetLatestResults(s)
        \/ \E i \in ThreadIds :
            \/ \E ok \in BOOLEAN : CaptureConnect(s, i, ok)
            \/ CaptureReadFails(s, i)
            \/ CaptureRead(s, i)
            \/ \E ok \in BOOLEAN : DetectionInit(s, i, ok)
            \/ \E ok \in BOOLEAN : DetectionLoop(s, i, ok)
            \/ \E c \in BOOLEAN, ok \in BOOLEAN, p \in Probs :
                   DetectInfer(s, i, c, ok, p)

SpecPair == InitPair /\ [][NextPair]_vars

\* The registry of streams, empty at first, with the settings fixed.
InitRegistry ==
    /\ buffer_size = MaxCap
    /\ frame_skip = 1
    /\ confidence_threshold = 70
    /\ streams = {}
    /\ InitProcessors
    /\ now = 0
    /\ enabled = FALSE
    /\ notification_interval = NotificationIntervalDefault
    /\ max_notifications = MaxNotificationsDefault
    /\ InitTelegram
    /\ InitHub
    /\ InitLock
    /\ call = NoCall

NextRegistry ==
    \/ \E id \in StreamIds :
           \/ AddStream(id)
           \/ RemoveStreamDelete(id)
           \/ ProcessorNext(id)
    \/ \E id \in RequestIds :
           \/ RemoveStream(id)
           \/ StartDetection(id)
           \/ StopDetection(id)
    \/ Tick

SpecRegistry == InitRegistry /\ [][NextRegistry]_vars

\* The same, with the scheduling the code can rely on: the event-loop
\* thread goes on with the stop() or remove_stream() it is executing, and
\* a detection thread that is not inside a blocking call reaches its while
\* condition.  Nothing makes a connection attempt, a read or an inference
\* call return.
FairRegistry ==
    /\ SpecRegistry
    /\ \A s \in StreamIds :
           /\ WF_vars(StopJoinFrame(s))
           /\ WF_vars(StopJoinDetection(s))
           /\ WF_vars(RemoveStreamDelete(s))
           /\ \A i \in ThreadIds : WF_vars(DetectionExit(s, i))

\* The notification engine: after some update_settings, fed with detections
\* by the orchestrator, under live changes of its settings.
InitNotify ==
    /\ buffer_size = MaxCap
    /\ frame_skip = 1
    /\ confidence_threshold = 70
    /\ InitStreams
    /\ now = 0
    /\ enabled \in BOOLEAN
    /\ notification_interval \in Intervals
    /\ max_notifications \in 0..MaxNotify
    /\ InitTelegram
    /\ InitHub
    /\ InitLock
    /\ call = NoCall

Feed ==
    /\ \E s \in AlertStreams, dt \in TimeSteps :
           \/ \E c \in EventConfidences : HandleDetection(s, TRUE, c, dt)
           \/ \E c \in QuietConfidences : HandleDetection(s, FALSE, c, dt)
    /\ UNCHANGED <<hub_vars, lock_vars>>

NextNotify ==
    \/ Feed
    \/ SendFinalNotification
    \/ \E on \in BOOLEAN, interval \in Intervals, limit \in 0..MaxNotify :
           UpdateTelegramSettings(on, interval, limit)

SpecNotify == InitNotify /\ [][NextNotify]_vars

\* The same with notifications enabled throughout.
InitEnabled == InitNotify /\ enabled

NextEnabled ==
    \/ Feed
    \/ SendFinalNotification
    \/ \E interval \in Intervals, limit \in 0..MaxNotify :
           UpdateTelegramSettings(TRUE, interval, limit)

SpecEnabled == InitEnabled /\ [][NextEnabled]_vars

\* The orchestrator and the subscribers of /ws, with the streams stopped
\* and up to MaxPending results of earlier runs pending in the queue.
PendingResult(s, stamp, flag) ==
    [stream_id |-> s, timestamp |-> stamp, is_violence |-> flag,
     confidence |-> IF flag THEN 80 ELSE 65]

PendingQueues ==
    UNION {[1..n -> BOOLEAN] : n \in 0..MaxPending}

InitOrchestrator ==
    /\ buffer_size = MaxCap
    /\ frame_skip = 1
    /\ confidence_threshold = 70
    /\ streams = StreamIds
    /\ is_running = [s \in AllStreams |-> FALSE]
    /\ detection_running = [s \in AllStreams |-> FALSE]
    /\ shutdown_event = [s \in AllStreams |-> FALSE]
    /\ frame_buffer = [s \in AllStreams |-> <<>>]
    /\ total_frames = [s \in AllStreams |-> 0]
    /\ fps = [s \in AllStreams |-> "zero"]
    /\ detection_count = [s \in AllStreams |-> 0]
    /\ last_detection = [s \in AllStreams |-> NoResult]
    /\ start_time = [s \in AllStreams |-> 0]
    /\ \E flags \in PendingQueues :
           results_queue =
               [s \in AllStreams |->
                   IF s \in StreamIds
                   THEN [j \in DOMAIN flags |->
                            PendingResult(s, j, flags[j])]
                   ELSE <<>>]
    /\ cap = [s \in AllStreams |-> "none"]
    /\ triton_client = [s \in AllStreams |-> "none"]
    /\ frame_threads = [s \in AllStreams |-> <<>>]
    /\ detection_threads = [s \in AllStreams |-> <<>>]
    /\ api = Idle
    /\ source_pos = [s \in AllStreams |-> 0]
    /\ pushed = [s \in AllStreams |-> <<>>]
    /\ rejected = NotRejected
    /\ now = 0
    /\ enabled \in BOOLEAN
    /\ notification_interval = NotificationIntervalDefault
    /\ max_notifications = MaxNotificationsDefault
    /\ InitTelegram
    /\ InitHub
    /\ InitLock
    /\ call = NoCall

\* The event loop runs a send_final_notification task while the
\* orchestrator is suspended.
FinalNotificationTask == Awaiting /\ SendFinalNotification

NextOrchestrator ==
    \/ \E w \in WebSockets :
           \/ EndpointConnect(w)
           \/ ClientLeaves(w)
           \/ ClientStalls(w)
           \/ EndpointDisconnect(w)
    \/ OrchCycle
    \/ BroadcastNext
    \/ BroadcastSent
    \/ BroadcastSendFails
    \/ BroadcastCleanup
    \/ OrchFeed
    \/ FinalNotificationTask

SpecOrchestrator == InitOrchestrator /\ [][NextOrchestrator]_vars

\* The event loop runs every coroutine that is ready: the orchestrator
\* when its sleep or its send has returned, and the handler of a closed
\* connection.  Nothing makes a client connect, leave or stall.
FairOrchestrator ==
    /\ SpecOrchestrator
    /\ WF_vars(OrchCycle)
    /\ WF_vars(BroadcastNext)
    /\ WF_vars(BroadcastSent)
    /\ WF_vars(BroadcastSendFails)
    /\ WF_vars(BroadcastCleanup)
    /\ WF_vars(OrchFeed)
    /\ WF_vars(FinalNotificationTask)
    /\ \A w \in WebSockets : WF_vars(EndpointDisconnect(w))

\* The notification engine, enabled, with a transport that goes down and
\* comes back.
NextTransport ==
    \/ Feed
    \/ SendFinalNotification
    \/ TransportChanges

SpecTransport == InitEnabled /\ [][NextTransport]_vars

\* ------------------------------------------------- the pure functions
\* TritonClient.predict and the adaptive interval, each called once on
\* arguments drawn from these sets.
CallProbs == {0, 50, 65, 69, 70, 71, 80, 100}
CallThresholds == {0, 50, 70, 100}
CallIntervals == {60, 300, 301, 600, 1500, 1800, 2000}
CallCounts == 0..10
\* the streams of a drained registry, in the order they were added, the
\* numbers of results pending in a queue, and the timestamps of the first
\* result and from one result to the next
DrainOrder == <<"cam1", "cam2">>
DrainLengths == {0, 1, 2, 10, 11}
DrainFirsts == {0, 5}
DrainSteps == {1, 2}

\* a queue of n results of stream s, oldest first
PendingQueue(s, n, first, step) ==
    [i \in 1..n |-> [stream_id |-> s, timestamp |-> first + (i - 1) * step,
                     is_violence |-> FALSE, confidence |-> 65]]

DrainCalls ==
    {[op |-> "get_latest_detections",
      queues |-> [s \in {"cam1", "cam2"} |->
                     IF s = "cam1" THEN PendingQueue(s, n1, f1, s1)
                     ELSE PendingQueue(s, n2, f2, s2)],
      done |-> FALSE, results |-> <<>>,
      left |-> [s \in {"cam1", "cam2"} |-> <<>>]] :
        n1 \in DrainLengths, n2 \in DrainLengths, f1 \in DrainFirsts,
        f2 \in DrainFirsts, s1 \in DrainSteps, s2 \in DrainSteps}

PredictCalls ==
    [op : {"predict"}, client : {"connected", "disconnected"},
     connect_ok : BOOLEAN, infer_ok : BOOLEAN, prob : CallProbs,
     threshold : CallThresholds, done : {FALSE}, is_violence : {FALSE},
     confidence : {0}, connects : {0}, raised : {FALSE}]

IntervalCalls ==
    [op : {"adaptive_interval"}, base_interval : CallIntervals,
     notification_count : CallCounts, done : {FALSE},
     adaptive_interval2 : {0}]

InitCalls ==
    /\ buffer_size = MaxCap
    /\ frame_skip = 1
    /\ confidence_threshold = 70
    /\ InitStreams
    /\ now = 0
    /\ enabled = FALSE
    /\ notification_interval = NotificationIntervalDefault
    /\ max_notifications = MaxNotificationsDefault
    /\ InitTelegram
    /\ InitHub
    /\ InitLock
    /\ call \in PredictCalls \cup IntervalCalls \cup DrainCalls

CallPredict ==
    /\ call.op = "predict"
    /\ ~call.done
    /\ LET r == Predict(call.client, call.connect_ok, call.infer_ok,
                        call.prob, call.threshold)
       IN  call' = [call EXCEPT !.done = TRUE,
                                !.is_violence = r.is_violence,
                                !.confidence = r.confidence,
                                !.connects = r.connects,
                                !.raised = r.raised]
    /\ UNCHANGED <<settings_vars, stream_vars, now, telegram_vars, n_fed,
                   fed, last_flag, episodes, rejected, hub_vars, lock_vars>>

CallAdaptiveInterval ==
    /\ call.op = "adaptive_interval"
    /\ ~call.done
    /\ call' = [call EXCEPT !.done = TRUE,
                  !.adaptive_interval2 =
                      AdaptiveInterval2(call.base_interval,
                                        call.notification_count)]
    /\ UNCHANGED <<settings_vars, stream_vars, now, telegram_vars, n_fed,
                   fed, last_flag, episodes, rejected, hub_vars, lock_vars>>

CallGetLatestDetections ==
    /\ call.op = "get_latest_detections"
    /\ ~call.done
    /\ LET r == GetLatestDetections(call.queues, DrainOrder)
       IN  call' = [call EXCEPT !.done = TRUE, !.results = r.results,
                                !.left = r.left]
    /\ UNCHANGED <<settings_vars, stream_vars, now, telegram_vars, n_fed,
                   fed, last_flag, episodes, rejected, hub_vars, lock_vars>>

NextCalls == CallPredict \/ CallAdaptiveInterval \/ CallGetLatestDetections

SpecCalls == InitCalls /\ [][NextCalls]_vars

\* ------------------------------------------------------ the frame buffer

\* C1: the length of a stream's frame buffer never exceeds the capacity in
\* force (system_settings.buffer_size), whatever pushes, reads and starts
\* have happened.
C1_BufferWithinCapacity ==
    \A s \in StreamIds : Len(frame_buffer[s]) <= buffer_size

\* C2: once at least `capacity` frames have been pushed since the buffer
\* was last cleared, the buffer holds exactly the `capacity` most recently
\* pushed frames, in arrival order.
C2_BufferHoldsLatest ==
    \A s \in StreamIds :
        LET n == Len(pushed[s])
        IN  n >= buffer_size =>
                frame_buffer[s] = SubSeq(pushed[s], n - buffer_size + 1, n)

\* C3: every window the detection thread passes to inference has exactly
\* `capacity` frames (stated for a capacity of at least one frame: cbs is
\* the buffer_size the thread read when it took the window).
C3_WindowIsCapacity ==
    \A s \in StreamIds :
        \A i \in DOMAIN detection_threads[s] :
            LET t == detection_threads[s][i]
            IN  (t.pc = "infer" /\ t.cbs >= 1) => Len(t.window) = t.cbs

\* ---------------------------------------------------- TritonClient.predict

\* a predict call that has returned after the backend gave a probability
PredictComputed ==
    /\ call.op = "predict"
    /\ call.done
    /\ call.infer_ok
    /\ call.client = "connected" \/ call.connect_ok

\* C4: the event flag of a prediction is true exactly when the probability
\* is strictly greater than the threshold, and the confidence is that
\* probability: at threshold 0.7, 0.8 is an event, 0.65 and 0.7 are not.
C4_StrictThreshold ==
    PredictComputed =>
        /\ call.is_violence <=> (call.prob > call.threshold)
        /\ call.confidence = call.prob
        /\ (call.threshold = 70 /\ call.prob = 80) => call.is_violence
        /\ (call.threshold = 70 /\ call.prob = 65) => ~call.is_violence
        /\ (call.threshold = 70 /\ call.prob = 70) => ~call.is_violence

\* a prediction exactly at the threshold, which is not an event
C4_AtThreshold ==
    /\ PredictComputed
    /\ call.threshold = 70
    /\ call.prob = 70
    /\ ~call.is_violence

\* a predict call that has returned after a failure: the backend could
\* not be reached, or its inference call raised
PredictCallFailed ==
    /\ call.op = "predict"
    /\ call.done
    /\ \/ ~call.infer_ok
       \/ call.client = "disconnected" /\ ~call.connect_ok

\* C21: predict never raises; a call that fails has attempted exactly one
\* (re)connection, and returns the "no detection" result (flag false,
\* probability 0.0).
C21_PredictReconnectsOnce ==
    (call.op = "predict" /\ call.done) =>
        /\ ~call.raised
        /\ PredictCallFailed =>
               /\ call.connects = 1
               /\ ~call.is_violence
               /\ call.confidence = 0

\* ------------------------------------------------ the adaptive interval

\* C7: the adaptive interval is min(base * (1 + count * 0.5), 1800) (here
\* doubled): base 300 gives 600 at count 2 and the clamp 1800 at count 10.
C7_AdaptiveInterval ==
    (call.op = "adaptive_interval" /\ call.done) =>
        LET b == call.base_interval
            c == call.notification_count
            r2 == call.adaptive_interval2
        IN  /\ r2 = IF 2 * b + b * c <= 3600 THEN 2 * b + b * c ELSE 3600
            /\ (b = 300 /\ c = 2) => r2 = 2 * 600
            /\ (b = 300 /\ c = 10) => r2 = 2 * 1800

\* the interval of base 300 at count 10, clamped
C7_Clamped ==
    /\ call.op = "adaptive_interval"
    /\ call.done
    /\ call.base_interval = 300
    /\ call.notification_count = 10
    /\ call.adaptive_interval2 = 3600

\* ---------------------------------------------- the notification engine

ContinuingKinds == {"continues", "ongoing"}

\* the messages sent about stream s, of a kind in kinds, that detection
\* seq caused
Caused(s, seq, kinds) ==
    {i \in DOMAIN sent : /\ sent[i].stream_id = s
                         /\ sent[i].seq = seq
                         /\ sent[i].kind \in kinds}

\* the "ended" notifications of stream s that detection seq caused and
\* that the event loop has not run yet
PendingEnded(s, seq) ==
    {k \in DOMAIN final_tasks : /\ final_tasks[k].stream_id = s
                                /\ final_tasks[k].seq = seq}

\* the last detection was one of stream s
Handled(s) == n_fed' = n_fed + 1 /\ fed'.stream_id = s

\* the last step sent a message about stream s, of a kind in kinds
Emitted(s, kinds) ==
    /\ Len(sent') = Len(sent) + 1
    /\ SubSeq(sent', 1, Len(sent)) = sent
    /\ sent'[Len(sent')].stream_id = s
    /\ sent'[Len(sent')].kind \in kinds

\* C5: with notifications enabled, every episode of a stream produces
\* exactly one "started" notification, at the detection that opens it, and
\* exactly one "ended" notification (sent, or created and waiting for the
\* event loop), at the detection that closes it; a continuing notification
\* is caused only by a detection strictly inside an episode, and no
\* detection causes two notifications.
C5_EpisodeNotifications ==
    \A s \in AlertStreams :
        /\ \A k \in DOMAIN episodes[s] :
               LET e == episodes[s][k]
               IN  /\ Cardinality(Caused(s, e.opened, {"started"})) = 1
                   /\ e.closed # 0 =>
                          Cardinality(Caused(s, e.closed, {"ended"}))
                              + Cardinality(PendingEnded(s, e.closed)) = 1
        /\ \A i \in DOMAIN sent :
               sent[i].stream_id = s =>
                   \E k \in DOMAIN episodes[s] :
                       LET e == episodes[s][k]
                           m == sent[i]
                       IN  CASE m.kind = "started" -> m.seq = e.opened
                             [] m.kind = "ended" -> m.seq = e.closed
                             [] m.kind \in ContinuingKinds ->
                                    /\ e.opened < m.seq
                                    /\ e.closed = 0 \/ m.seq < e.closed
                             [] OTHER -> FALSE
        /\ \A k \in DOMAIN final_tasks :
               final_tasks[k].stream_id = s =>
                   \E j \in DOMAIN episodes[s] :
                       episodes[s][j].closed = final_tasks[k].seq
        /\ \A seq \in 1..n_fed :
               Cardinality(Caused(s, seq, ContinuingKinds \cup
                                          {"started", "ended", "alert"})) <= 1

\* the detections event, event, non-event of one stream gave "started",
\* one continuing notification and "ended"
C5_StartedContinuingEnded ==
    \E s \in AlertStreams :
        /\ episodes[s] # <<>>
        /\ episodes[s][1].opened = 1
        /\ episodes[s][1].closed = 3
        /\ Len(sent) = 3
        /\ sent[1].kind = "started" /\ sent[1].stream_id = s
        /\ sent[2].kind = "continues" /\ sent[2].stream_id = s
        /\ sent[2].seq = 2
        /\ sent[3].kind = "ended" /\ sent[3].stream_id = s

\* C6: the max_confidence an "ended" notification reports is the largest
\* confidence of the event detections of its episode, the opening one
\* included.
C6_EndedReportsPeak ==
    \A i \in DOMAIN sent :
        sent[i].kind = "ended" =>
            \A k \in DOMAIN episodes[sent[i].stream_id] :
                LET e == episodes[sent[i].stream_id][k]
                IN  e.closed = sent[i].seq => sent[i].max_confidence = e.peak

\* C8 as stated: the notification_count of an open episode never exceeds
\* max_notifications.
C8_CountWithinLimit ==
    \A s \in DOMAIN violence_events :
        violence_events[s].notification_count <= max_notifications

\* C8, amended: within an episode notification_count never decreases and
\* grows by one at a time, only at a detection that finds it below the
\* max_notifications in force; a detection that finds it at or above that
\* limit emits nothing and changes neither the count nor the clock.
C8_CountGrowsBelowLimit ==
    [][\A s \in AlertStreams :
           (s \in DOMAIN violence_events /\ s \in DOMAIN violence_events') =>
               LET c == violence_events[s].notification_count
                   c2 == violence_events'[s].notification_count
               IN  /\ c2 >= c
                   /\ c2 <= c + 1
                   /\ c2 > c => c < max_notifications /\ Handled(s)
                   /\ c >= max_notifications =>
                          /\ ~Emitted(s, ContinuingKinds \cup
                                         {"started", "alert"})
                          /\ c2 = c
                          /\ last_notification_time'[s] =
                                 last_notification_time[s]]_vars

\* an event detection long after the last notification of its episode,
\* suppressed because the count has reached the limit
C8_SuppressedAtLimit ==
    \E s \in DOMAIN violence_events :
        /\ fed.stream_id = s
        /\ fed.is_violence
        /\ max_notifications >= 1
        /\ violence_events[s].notification_count = max_notifications
        /\ violence_events[s].last_detection = now
        /\ now - last_notification_time[s] >= MaxAdaptiveInterval
        /\ Caused(s, n_fed, ContinuingKinds \cup {"started"}) = {}

\* C9: an event detection of a stream with an open episode whose count is
\* below the limit emits a continuing notification exactly when the time
\* since the last notification is at least the adaptive interval; when it
\* emits, the count grows by one and the clock is set to now; when it does
\* not, neither changes.
C9_ContinuingIffElapsed ==
    [][\A s \in AlertStreams :
           (/\ Handled(s)
            /\ fed'.is_violence
            /\ s \in DOMAIN violence_events
            /\ violence_events[s].notification_count < max_notifications) =>
               LET c == violence_events[s].notification_count
                   c2 == violence_events'[s].notification_count
                   elapsed == now' - last_notification_time[s]
                   scaled == notification_interval * (2 + c)
                   adaptive2 == IF scaled <= 3600 THEN scaled ELSE 3600
                   emitted == Emitted(s, ContinuingKinds)
               IN  /\ emitted <=> 2 * elapsed >= adaptive2
                   /\ emitted =>
                          /\ c2 = c + 1
                          /\ last_notification_time'[s] = now'
                          /\ sent'[Len(sent')].seq = n_fed'
                   /\ ~emitted =>
                          /\ sent' = sent
                          /\ c2 = c
                          /\ last_notification_time'[s] =
                                 last_notification_time[s]]_vars

\* a continuing notification emitted exactly when the interval had elapsed
C9_EmittedAtInterval ==
    \E s \in DOMAIN violence_events :
        /\ sent # <<>>
        /\ sent[Len(sent)].kind = "continues"
        /\ sent[Len(sent)].stream_id = s
        /\ sent[Len(sent)].seq = n_fed
        /\ violence_events[s].notification_count = 1
        /\ last_notification_time[s] = now
        /\ now - violence_events[s].start_time = notification_interval

\* C10: a non-event detection discards the stream's episode record and its
\* last-notification clock, so a stream whose last detection was a
\* non-event has neither; an event detection of a stream without an
\* episode record opens a new episode with count 0 at that moment and
\* emits "started", however short the time since the episode before.
C10_EndDiscardsThrottle ==
    /\ [](\A s \in AlertStreams :
              ~last_flag[s] => /\ s \notin DOMAIN violence_events
                               /\ s \notin DOMAIN last_notification_time)
    /\ [][\A s \in AlertStreams :
              Handled(s) =>
                  /\ ~fed'.is_violence =>
                         /\ s \notin DOMAIN violence_events'
                         /\ s \notin DOMAIN last_notification_time'
                  /\ (fed'.is_violence /\ ~last_flag[s]) =>
                         /\ violence_events'[s].notification_count = 0
                         /\ violence_events'[s].start_time = now'
                         /\ last_notification_time'[s] = now'
                         /\ Emitted(s, {"started"})
                         /\ sent'[Len(sent')].seq = n_fed']_vars

\* "started" for a new episode at the very time the episode before ended
C10_RestartWithoutCooldown ==
    \E s \in DOMAIN violence_events :
        /\ sent # <<>>
        /\ sent[Len(sent)].kind = "started"
        /\ sent[Len(sent)].stream_id = s
        /\ sent[Len(sent)].seq = n_fed
        /\ violence_events[s].notification_count = 0
        /\ violence_events[s].start_time = now
        /\ \E k \in DOMAIN final_tasks :
               /\ final_tasks[k].stream_id = s
               /\ final_tasks[k].seq = n_fed - 1
               /\ final_tasks[k].event_info.start_time
                      + final_tasks[k].duration = now

\* ------------------------------------------------------------ the registry

\* C11: add_stream with an id that is present returns False and keeps the
\* processor of that id as it was; remove_stream, start_detection and
\* stop_detection with an id that is not present return False and change
\* no stream.  A call that returns False never changes a stream, and add
\* is the one that fails on a present id, the others on an absent one.
C11_InvalidIdRejected ==
    [][/\ \A id \in StreamIds :
              (id \in streams /\ AddStream(id)) =>
                  /\ rejected' = [op |-> "add_stream", id |-> id]
                  /\ UNCHANGED stream_vars
       /\ \A id \in RequestIds :
              (/\ id \notin streams
               /\ RemoveStream(id) \/ StartDetection(id) \/ StopDetection(id))
                  => /\ rejected'.id = id
                     /\ rejected'.op \in {"remove_stream", "start_detection",
                                          "stop_detection"}
                     /\ UNCHANGED stream_vars
       /\ rejected' # rejected =>
              /\ UNCHANGED stream_vars
              /\ rejected'.op = "add_stream" <=> rejected'.id \in streams
      ]_vars

\* a second add_stream for a stream that is running with frames buffered
\* was rejected
C11_DuplicateRejected ==
    \E id \in streams :
        /\ rejected = [op |-> "add_stream", id |-> id]
        /\ is_running[id]
        /\ frame_buffer[id] # <<>>
        /\ total_frames[id] = Len(frame_buffer[id])

\* what stop() leaves: the signal raised, the flags down, no open source
\* handle, no inference client
Stopped(s) ==
    /\ shutdown_event[s]
    /\ ~is_running[s]
    /\ ~detection_running[s]
    /\ cap[s] # "open"
    /\ triton_client[s] = "none"

\* both joins of stop() are over: each worker is absent, dead, or inside a
\* blocking call that outlasted the timeout
Waited(s) ==
    /\ JoinReturns(frame_threads[s],
                   FrameBlocked(frame_threads[s][Len(frame_threads[s])]))
    /\ JoinReturns(detection_threads[s],
           DetectionBlocked(detection_threads[s][Len(detection_threads[s])]))

\* C12: remove_stream of a present stream deletes the entry only after
\* stop() has run on its processor and returned (signal raised, workers
\* waited for, source handle released), the stream stays listed until
\* then, and afterwards the id is neither in the registry nor in the status
\* list.
C12_RemoveStopsThenDeletes ==
    /\ [][\A id \in StreamIds :
              /\ (id \in streams /\ id \notin streams') =>
                     /\ api.op = "delete"
                     /\ api.id = id
                     /\ api.caller = "remove_stream"
                     /\ shutdown_event[id]
                     /\ ~is_running[id]
                     /\ ~detection_running[id]
                     /\ cap[id] # "open"
                     /\ api' = Idle
                     /\ \A st \in GetAllStreams' : st.id # id
              /\ (api.op # "delete" /\ api'.op = "delete" /\ api'.id = id) =>
                     /\ api.op = "join_detection"
                     /\ api.id = id
                     /\ Waited(id)
                     /\ Stopped(id)']_vars
    /\ [](api.caller = "remove_stream" =>
              /\ api.id \in streams
              /\ shutdown_event[api.id]
              /\ \E st \in GetAllStreams : st.id = api.id /\ ~st.is_running)

\* a stream that had delivered frames has been removed
C12_Removed ==
    \E id \in StreamIds :
        /\ id \notin streams
        /\ api = Idle
        /\ source_pos[id] >= 1
        /\ \A st \in GetAllStreams : st.id # id

\* a get_latest_detections call that has returned
Drained == call.op = "get_latest_detections" /\ call.done

\* the places of result r in the list returned
PlacesOf(r) == {j \in DOMAIN call.results : call.results[j] = r}

\* the list returned is ordered by timestamp, newest first
NewestFirst ==
    \A j, k \in DOMAIN call.results :
        j < k => call.results[j].timestamp >= call.results[k].timestamp

\* C13 as stated: the call returns every result that was pending in the
\* queue of any stream, each exactly once, newest first, and leaves every
\* queue empty.
C13_DrainsAll ==
    Drained =>
        /\ \A s \in DOMAIN call.queues :
               /\ \A i \in DOMAIN call.queues[s] :
                      Cardinality(PlacesOf(call.queues[s][i])) = 1
               /\ call.left[s] = <<>>
        /\ Len(call.results) =
               Len(call.queues["cam1"]) + Len(call.queues["cam2"])
        /\ NewestFirst

\* C13, amended: the call returns, of every stream, the oldest results
\* pending in its queue up to ten of them, each exactly once and nothing
\* else, newest first, and leaves in each queue exactly the results beyond
\* the tenth, in their order.
C13_DrainsTenPerStream ==
    Drained =>
        /\ \A s \in DOMAIN call.queues :
               LET q == call.queues[s]
                   n == IF Len(q) <= 10 THEN Len(q) ELSE 10
               IN  /\ \A i \in 1..n : Cardinality(PlacesOf(q[i])) = 1
                   /\ \A i \in (n + 1)..Len(q) : PlacesOf(q[i]) = {}
                   /\ call.left[s] = SubSeq(q, n + 1, Len(q))
                   /\ Cardinality({j \in DOMAIN call.results :
                                      call.results[j].stream_id = s}) = n
        /\ NewestFirst

\* eleven results were pending in one queue and two in the other: the ten
\* oldest of the first and both of the second were returned
C13_EleventhLeft ==
    /\ Drained
    /\ Len(call.queues["cam1"]) = 11
    /\ Len(call.queues["cam2"]) = 2
    /\ Len(call.results) = 12
    /\ call.left["cam1"] = <<call.queues["cam1"][11]>>
    /\ call.left["cam2"] = <<>>

\* ------------------------------------------------------- start and stop

\* C14: start() on a stream that is running changes nothing: no worker is
\* spawned, and the buffer, the counters, the last detection and the start
\* time stay as they are.
C14_StartWhileRunning ==
    [][\A s \in StreamIds :
           (s \in streams /\ is_running[s] /\ StartDetection(s)) =>
               /\ frame_threads'[s] = frame_threads[s]
               /\ detection_threads'[s] = detection_threads[s]
               /\ frame_buffer'[s] = frame_buffer[s]
               /\ total_frames'[s] = total_frames[s]
               /\ detection_count'[s] = detection_count[s]
               /\ last_detection'[s] = last_detection[s]
               /\ start_time'[s] = start_time[s]
               /\ UNCHANGED stream_vars]_vars

\* a running stream with both workers alive, frames counted and buffered
\* and a detection made, later than its start: a state in which a second
\* start() would show
C14_RunningWithHistory ==
    \E s \in streams :
        /\ is_running[s]
        /\ api = Idle
        /\ frame_threads[s] # <<>> /\ Alive(frame_threads[s][1])
        /\ detection_threads[s] # <<>> /\ Alive(detection_threads[s][1])
        /\ total_frames[s] >= 1
        /\ frame_buffer[s] # <<>>
        /\ detection_count[s] >= 1
        /\ now > start_time[s]

\* this step is one of a stop() of the processor of stream s
StopStep(s) ==
    \/ s \in streams /\ StopDetection(s)
    \/ StopJoinFrame(s)
    \/ StopJoinDetection(s)

\* the fields of the processor of stream s
Processor(s) ==
    <<is_running[s], detection_running[s], shutdown_event[s],
      frame_buffer[s], total_frames[s], detection_count[s],
      last_detection[s], start_time[s], results_queue[s], cap[s],
      triton_client[s], frame_threads[s], detection_threads[s]>>

\* C15: stop() spawns and ends no worker; when it returns, the stream is
\* not running, the signal is raised and the handle and the client are
\* gone, also for a stream that was never started; and a stop() that
\* begins in the state a stop() has left changes no field of the
\* processor, so calling it twice in a row leaves what calling it once
\* leaves.
C15_StopIdempotent ==
    [][\A s \in StreamIds :
           StopStep(s) =>
               /\ frame_threads'[s] = frame_threads[s]
               /\ detection_threads'[s] = detection_threads[s]
               /\ (api.op = "join_detection" /\ api'.op # "join_detection")
                      => Stopped(s)' /\ cap'[s] = "none"
               /\ (Stopped(s) /\ cap[s] = "none")
                      => Processor(s)' = Processor(s)]_vars

\* stop() has returned on a stream that was never started
C15_StoppedNeverStarted ==
    \E s \in streams :
        /\ api = Idle
        /\ shutdown_event[s]
        /\ ~is_running[s]
        /\ frame_threads[s] = <<>>
        /\ detection_threads[s] = <<>>
        /\ total_frames[s] = 0

\* the thread that _frame_thread / detection_thread refers to is alive
WorkerAlive(ts) == ts # <<>> /\ Alive(ts[Len(ts)])

\* C16: in every reachable state the is_running flag of a stream is true
\* exactly when both its capture worker and its detection worker are alive.
C16_RunningIffWorkersAlive ==
    \A s \in streams :
        is_running[s] <=> /\ WorkerAlive(frame_threads[s])
                          /\ WorkerAlive(detection_threads[s])

\* ------------------------------------------------------ source failures

\* C18: when a read fails, the capture thread that read leaves its loop and
\* ends without another read or connection attempt (the capture threads
\* still alive are the others, as they were), the stream is marked not
\* running, and the frame counter, the detection counter and the last
\* detection keep their values; no capture thread runs again before the
\* next start().
C18_ReadFailureEndsCapture ==
    [][\A s \in StreamIds :
           /\ \A i \in ThreadIds :
                  CaptureReadFails(s, i) =>
                      /\ ~is_running'[s]
                      /\ SelectSeq(frame_threads'[s], Alive) =
                             RemoveAt(SelectSeq(frame_threads[s], Alive), i)
                      /\ cap'[s] = "none"
                      /\ source_pos'[s] = source_pos[s]
                      /\ total_frames'[s] = total_frames[s]
                      /\ detection_count'[s] = detection_count[s]
                      /\ last_detection'[s] = last_detection[s]
           /\ (~WorkerAlive(frame_threads[s])
               /\ WorkerAlive(frame_threads'[s])) =>
                  s \in streams /\ StartDetection(s)]_vars

\* a stream whose capture thread ended on a failed read: not running, no
\* stop() called, its counters kept, its detection thread still alive
C18_FailedWithCounters ==
    \E s \in streams :
        /\ ~is_running[s]
        /\ ~shutdown_event[s]
        /\ frame_threads[s] # <<>>
        /\ ~WorkerAlive(frame_threads[s])
        /\ WorkerAlive(detection_threads[s])
        /\ total_frames[s] >= 2
        /\ detection_count[s] >= 1

\* C19: when the connection attempt to the video source fails, the stream
\* ends up stopped: its is_running flag is false afterwards.
C19_ConnectFailureStops ==
    [][\A s \in StreamIds :
           \A i \in ThreadIds :
               CaptureConnect(s, i, FALSE) => ~is_running'[s]]_vars

\* a stop() is executing
Stopping == api.op \in {"join_frame", "join_detection"}

\* C17: stop() always returns, and when it returns the signal is raised,
\* the stream is not running, the source handle is released and the
\* inference client is dropped, whether or not the workers have exited.
C17_StopReturns ==
    /\ Stopping ~> ~Stopping
    /\ [][\A s \in StreamIds :
              (Stopping /\ ~Stopping' /\ api.id = s) =>
                  /\ shutdown_event'[s]
                  /\ ~is_running'[s]
                  /\ ~detection_running'[s]
                  /\ cap'[s] = "none"
                  /\ triton_client'[s] = "none"]_vars

\* stop() has returned with both workers hung inside a blocking call
C17_ReturnedWithHungWorkers ==
    \E s \in streams :
        /\ api = Idle
        /\ Stopped(s)
        /\ cap[s] = "none"
        /\ WorkerAlive(frame_threads[s])
        /\ frame_threads[s][Len(frame_threads[s])].pc = "read"
        /\ WorkerAlive(detection_threads[s])
        /\ detection_threads[s][Len(detection_threads[s])].pc = "infer"

\* --------------------------------------------------- inference failures

\* C20: when the inference call of a detection thread fails (the backend
\* cannot be reached, or the call raises), no DetectionResult is enqueued
\* for the window and the stream's inference client is invalidated.
C20_FailedInferenceDropped ==
    [][\A s \in StreamIds :
           \A i \in ThreadIds, connect_ok \in BOOLEAN, infer_ok \in BOOLEAN,
              prob \in Probs :
               (/\ DetectInfer(s, i, connect_ok, infer_ok, prob)
                /\ \/ ~infer_ok
                   \/ /\ detection_threads[s][i].client = "disconnected"
                      /\ ~connect_ok) =>
                   /\ results_queue'[s] = results_queue[s]
                   /\ triton_client'[s] = "none"]_vars

C29_TransportFailureSwallowed ==
    /\ [][/\ Len(sent') <= Len(sent) + 1
          /\ sent' # sent => SubSeq(sent', 1, Len(sent)) = sent
          /\ delivered' # delivered =>
                 /\ transport_up
                 /\ Len(sent') = Len(sent) + 1
                 /\ delivered' = Append(delivered, sent'[Len(sent')])
          /\ (n_fed' = n_fed + 1 /\ enabled) =>
                 LET r == ShouldSendNotification(violence_events,
                              last_notification_time, fed'.confidence,
                              notification_interval, max_notifications,
                              fed'.stream_id, fed'.is_violence, now')
                 IN  /\ violence_events' = r.violence_events
                     /\ last_notification_time' = r.last_notification_time
                     /\ r.send <=> Len(sent') = Len(sent) + 1]_vars
    /\ [](\A i \in DOMAIN sent, j \in DOMAIN sent :
              i # j => sent[i] # sent[j])

\* a message posted while the transport was down and not accepted, and a
\* later message that the transport has accepted
C29_LostThenResumed ==
    \E i \in DOMAIN sent, j \in DOMAIN sent :
        /\ i < j
        /\ ~InList(delivered, sent[i])
        /\ InList(delivered, sent[j])

\* ------------------------------------------------ independent streams

\* a step in which stream s fails: its source cannot be opened or read,
\* the inference backend cannot be reached, or an inference call fails
FailureStep(s) ==
    \E i \in ThreadIds :
        \/ CaptureConnect(s, i, FALSE)
        \/ CaptureReadFails(s, i)
        \/ DetectionInit(s, i, FALSE)
        \/ \E c \in BOOLEAN, ok \in BOOLEAN, p \in Probs :
               /\ DetectInfer(s, i, c, ok, p)
               /\ \/ ~ok
                  \/ detection_threads[s][i].client = "disconnected" /\ ~c

\* an inference call of stream s is in progress, for however long
InferencePending(s) ==
    \E i \in DOMAIN detection_threads[s] :
        detection_threads[s][i].pc = "infer"

\* C28: a source failure or an inference failure of a stream changes no
\* field of the processor of any other stream and not the set of streams
\* of the registry; and while an inference call of a stream is pending,
\* the capture threads of the other streams can go on pushing frames.
C28_StreamsIndependent ==
    /\ [][\A s \in AllStreams :
              FailureStep(s) =>
                  /\ streams' = streams
                  /\ \A o \in AllStreams \ {s} :
                         Processor(o)' = Processor(o)]_vars
    /\ [](\A s \in AllStreams :
              InferencePending(s) =>
                  \A o \in AllStreams \ {s} :
                      \A j \in DOMAIN frame_threads[o] :
                          (frame_threads[o][j].pc = "read"
                           /\ source_pos[o] < MaxFrames) =>
                              ENABLED CaptureRead(o, j))

\* a stream whose source has failed after it delivered frames, beside
\* another stream that is running with frames in its buffer and a result
\* in its queue
C28_FailedBesideRunning ==
    \E s \in AllStreams, o \in AllStreams :
        /\ s # o
        /\ ~is_running[s]
        /\ cap[s] = "none"
        /\ total_frames[s] > 0
        /\ ~WorkerAlive(frame_threads[s])
        /\ is_running[o]
        /\ WorkerAlive(frame_threads[o])
        /\ frame_buffer[o] # <<>>
        /\ results_queue[o] # <<>>

\* ------------------------------------------------------ the broadcast hub

\* a step in which a call of broadcast ends, by returning or by raising
BroadcastEnds == orch.pc = "for" /\ orch'.pc # orch.pc /\ orch'.pc # "send"

\* w was subscribed when the broadcast was called, and is still: its
\* endpoint has not disconnected it and its client is there
Listening(w) ==
    /\ InList(orch.start, w)
    /\ endpoint[w] = "receive"
    /\ peer[w] = "up"

\* C22: a broadcast in which the send to a subscriber fails still
\* delivers the message to the other subscribers, which stay in the live
\* set, removes the failing subscriber from the live set, and returns.
C22_FailedSendEvictsOnlyFailing ==
    [][BroadcastEnds =>
           /\ ~orch'.caught
           /\ \A w \in WebSockets :
                  /\ Listening(w) =>
                         /\ InList(received[w], orch.message)
                         /\ InList(active_connections', w)
                  /\ InList(orch.disconnected, w) =>
                         ~InList(active_connections', w)]_vars

\* C23: disconnect() of a subscriber that is not in the set (broadcast has
\* evicted it) succeeds and leaves the set as it is, and connect() leaves
\* the subscriber in the set exactly once.
C23_ConnectDisconnectIdempotent ==
    [][\A w \in WebSockets :
           /\ EndpointDisconnect(w) =>
                  /\ endpoint'[w] = "closed"
                  /\ ~InList(active_connections', w)
                  /\ ~InList(active_connections, w) =>
                         active_connections' = active_connections
           /\ EndpointConnect(w) =>
                  Cardinality({j \in DOMAIN active_connections' :
                                  active_connections'[j] = w}) = 1]_vars

\* ------------------------------------------------------- the orchestrator

\* the calls of a complete cycle over the detections drained: broadcast
\* and handle_detection for each in turn, then the broadcast of the status
RECURSIVE CycleCalls(_)
CycleCalls(detections) ==
    IF detections = <<>>
    THEN <<[op |-> "broadcast", message |-> StatusMessage]>>
    ELSE <<[op |-> "broadcast",
            message |-> DetectionMessage(Head(detections))],
           [op |-> "handle_detection", message |-> Head(detections)]>>
             \o CycleCalls(Tail(detections))

\* C24: when a cycle of the orchestrator ends, each detection it drained
\* has been broadcast once and handed to handle_detection once, and the
\* status has been broadcast after them.
C24_DrainedBroadcastAndFed ==
    [][(orch.pc # "sleep" /\ orch'.pc = "sleep") =>
           orch'.done = CycleCalls(orch.detections)]_vars

\* C25: an exception raised in a cycle does not end the loop of the
\* orchestrator: the loop is always at one of its statements, and after
\* the except clause has ended a cycle, a further cycle begins.
C25_LoopSurvivesErrors ==
    /\ [](orch.pc \in {"sleep", "for", "send", "feed"})
    /\ (orch.caught ~> (orch.pc = "for" /\ orch.after_error))

\* a cycle that runs after the cycle before it was ended by an exception
C25_CycleAfterError ==
    /\ orch.pc = "for"
    /\ orch.after_error
    /\ \E w \in WebSockets : endpoint[w] = "raised"

\* C26: a subscriber whose send does not complete does not hold the
\* orchestrator: it goes on to its next cycle, and the subscriber is
\* evicted from the live set.
C26_StalledSubscriberEvicted ==
    \A w \in WebSockets :
        (orch.pc = "send" /\ orch.target = w /\ peer[w] = "stalled")
            ~> (orch.pc = "sleep" /\ ~InList(active_connections, w))

\* ------------------------------------------- stop() followed by start()

\* bound: the threads of one kind of a stream alive at once, those that
\* outlived the join of a stop() included
MaxLeftover == 2

LeftoverIds == 1..MaxLeftover

\* A blocking call of capture thread i of stream s returns: the connection
\* attempt or cap.read().
CaptureReturns(s, i) ==
    \/ \E ok \in BOOLEAN : CaptureConnect(s, i, ok)
    \/ CaptureReadFails(s, i)
    \/ CaptureRead(s, i)

\* A blocking call of detection thread i of stream s returns: the
\* connection of its TritonClient or predict.
DetectionReturns(s, i) ==
    \/ \E ok \in BOOLEAN : DetectionInit(s, i, ok)
    \/ \E c \in BOOLEAN, ok \in BOOLEAN, p \in Probs :
           DetectInfer(s, i, c, ok, p)

\* Detection thread i of stream s evaluates its while condition and leaves
\* or runs one more cycle.
DetectionIterates(s, i) ==
    \/ DetectionExit(s, i)
    \/ \E ok \in BOOLEAN : DetectionLoop(s, i, ok)

\* One stream that is started and stopped again and again, with the
\* settings fixed; start() may find threads of the run before still alive.
InitRestart ==
    /\ buffer_size = 1
    /\ frame_skip = 1
    /\ confidence_threshold = 70
    /\ InitStreams
    /\ now = 0
    /\ enabled = FALSE
    /\ notification_interval = NotificationIntervalDefault
    /\ max_notifications = MaxNotificationsDefault
    /\ InitTelegram
    /\ InitHub
    /\ InitLock
    /\ call = NoCall

NextRestart ==
    \E s \in StreamIds :
        \/ StartWithin(s, MaxLeftover)
        \/ StopSignal(s)
        \/ StopJoinFrame(s)
        \/ StopJoinDetection(s)
        \/ GetLatestResults(s)
        \/ \E i \in LeftoverIds :
            \/ CaptureReturns(s, i)
            \/ DetectionReturns(s, i)
            \/ DetectionIterates(s, i)

SpecRestart == InitRestart /\ [][NextRestart]_vars

\* The same where every blocking call returns: stop() goes on through its
\* joins, the reader of the results keeps draining the queue, every
\* connection attempt, read and inference call returns, and every
\* detection thread reaches its while condition.
FairRestart ==
    /\ SpecRestart
    /\ \A s \in StreamIds :
           /\ WF_vars(StopJoinFrame(s))
           /\ WF_vars(StopJoinDetection(s))
           /\ WF_vars(GetLatestResults(s))
           /\ \A i \in LeftoverIds :
                  /\ WF_vars(CaptureReturns(s, i))
                  /\ WF_vars(DetectionReturns(s, i))
                  /\ WF_vars(DetectionIterates(s, i))

\* No capture thread and no detection thread of stream s is alive.
WorkersExited(s) ==
    /\ \A i \in DOMAIN frame_threads[s] : ~Alive(frame_threads[s][i])
    /\ \A i \in DOMAIN detection_threads[s] :
           ~Alive(detection_threads[s][i])

\* C30: once stop() has raised the shutdown signal of a stream, and every
\* blocking call returns, the capture worker and the detection worker of
\* the stream eventually leave their loops: a moment comes at which none
\* of its workers is alive.
C30_StopEndsWorkers ==
    \A s \in StreamIds : shutdown_event[s] ~> WorkersExited(s)

\* ------------------------------------------------------ start() of a stream

\* C31: start() on a stream that is not running empties the buffer, sets
\* the frame counter, the detection counter and fps to zero and the last
\* detection to none, clears the shutdown signal, starts exactly one new
\* capture thread and one new detection thread, and sets is_running at
\* once: no frame has been read by then.
C31_StartResetsAndSpawns ==
    [][\A s \in StreamIds :
           (~is_running[s] /\ is_running'[s]) =>
               /\ frame_buffer'[s] = <<>>
               /\ total_frames'[s] = 0
               /\ detection_count'[s] = 0
               /\ fps'[s] = "zero"
               /\ last_detection'[s] = NoResult
               /\ ~shutdown_event'[s]
               /\ detection_running'[s]
               /\ SelectSeq(frame_threads'[s], Alive)
                      = Append(SelectSeq(frame_threads[s], Alive),
                               NewFrameThread)
               /\ SelectSeq(detection_threads'[s], Alive)
                      = Append(SelectSeq(detection_threads[s], Alive),
                               NewDetectionThread)
               /\ source_pos'[s] = source_pos[s]]_vars

\* a stream started again after a run that read frames and was stopped:
\* it is running, reset, and its new threads have not taken a step
C31_RestartedFresh ==
    \E s \in StreamIds :
        /\ is_running[s]
        /\ source_pos[s] > 0
        /\ results_queue[s] # <<>>
        /\ total_frames[s] = 0
        /\ fps[s] = "zero"
        /\ frame_buffer[s] = <<>>
        /\ frame_threads[s] = <<NewFrameThread>>
        /\ detection_threads[s] = <<NewDetectionThread>>

\* ------------------------------------------- the handle of the video source

\* C32: every exit of the capture thread releases the handle of the video
\* source (stop, failed read, exception in the loop, failed connection
\* attempt): while no capture thread of a stream is alive, the stream
\* holds no handle (cap is None).
C32_HandleReleasedOnExit ==
    \A s \in StreamIds :
        (\A i \in DOMAIN frame_threads[s] : ~Alive(frame_threads[s][i]))
            => cap[s] = "none"

\* ---------------------------------------------------------- buffer_lock
\* The with blocks on buffer_lock of one stream, one statement at a time:
\* process_frame (lines 274-281) in the capture thread, detection_loop
\* (lines 367-369) and detect_violence (lines 292-296) in the detection
\* thread, start() (lines 445-446) and the frame WebSocket (lines
\* 1181-1196) in the event-loop thread.

\* with self.buffer_lock does not wait for the lock.
CanAcquireHeld(lock) == TRUE

\* with self.buffer_lock is entered when no thread holds the lock
\* (threading.Lock is not reentrant).
CanAcquire(lock) == lock = "free"

\* the statements of thread t inside a with block of buffer_lock
InsideWith(pc) == pc \in {"append", "trim", "len", "test", "copy", "clear",
                          "latest"}

\* Thread t of stream s enters a with block at statement to.
WithEnter(s, t, from, to) ==
    /\ at[s][t] = from
    /\ CanAcquire(buffer_lock[s])
    /\ buffer_lock' = [buffer_lock EXCEPT ![s] = t]
    /\ at' = [at EXCEPT ![s][t] = to]

\* Thread t of stream s leaves its with block and goes on at to.
WithExit(s, t, to) ==
    /\ buffer_lock' = [buffer_lock EXCEPT ![s] = "free"]
    /\ at' = [at EXCEPT ![s][t] = to]

\* list.copy(): a new list with the same frames.
Snapshot(buf) == [frames |-> buf, shared |-> FALSE]

\* The list frame_buffer_copy refers to after frame_buffer.append(frame) on
\* the list buf was: the same list when the two names share one list.
AfterAppend(copy, frame) ==
    IF copy.shared THEN [copy EXCEPT !.frames = Append(@, frame)] ELSE copy

\* frame_buffer is bound to a new list: the names no longer share one.
AfterRebind(copy) == [copy EXCEPT !.shared = FALSE]

processor_fields == <<streams, is_running, detection_running,
                      shutdown_event, total_frames, fps, detection_count,
                      last_detection, start_time, results_queue, cap,
                      triton_client, frame_threads, detection_threads, api>>

outside_processor == <<settings_vars, now, telegram_vars, history_vars,
                       hub_vars>>

\* process_frame(frame), line 274: the frame read is resized and the with
\* block is entered.
PushEnter(s) ==
    /\ source_pos[s] < MaxFrames
    /\ WithEnter(s, "capture", "out", "append")
    /\ source_pos' = [source_pos EXCEPT ![s] = @ + 1]
    /\ locals' = [locals EXCEPT ![s].frame = source_pos[s] + 1,
                                ![s].before = frame_buffer[s]]
    /\ UNCHANGED <<frame_buffer, pushed, processor_fields,
                   outside_processor>>

\* line 275
PushAppend(s) ==
    /\ at[s]["capture"] = "append"
    /\ frame_buffer' = [frame_buffer EXCEPT
                          ![s] = Append(@, locals[s].frame)]
    /\ pushed' = [pushed EXCEPT ![s] = Append(@, locals[s].frame)]
    /\ locals' = [locals EXCEPT ![s].frame_buffer_copy =
                                    AfterAppend(@, locals[s].frame)]
    /\ at' = [at EXCEPT ![s]["capture"] = "trim"]
    /\ UNCHANGED <<buffer_lock, source_pos, processor_fields,
                   outside_processor>>

\* lines 278-281, and the end of the with block
PushTrim(s) ==
    /\ at[s]["capture"] = "trim"
    /\ IF Len(frame_buffer[s]) > buffer_size
       THEN /\ frame_buffer' = [frame_buffer EXCEPT
                                  ![s] = PySliceLast(@, buffer_size)]
            /\ locals' = [locals EXCEPT ![s].frame_buffer_copy =
                                            AfterRebind(@)]
       ELSE UNCHANGED <<frame_buffer, locals>>
    /\ WithExit(s, "capture", "out")
    /\ UNCHANGED <<pushed, source_pos, processor_fields, outside_processor>>

\* detection_loop, line 368
LengthEnter(s) ==
    /\ WithEnter(s, "detection", "out", "len")
    /\ UNCHANGED <<locals, frame_buffer, pushed, source_pos,
                   processor_fields, outside_processor>>

\* line 369, and the end of the with block
LengthRead(s) ==
    /\ at[s]["detection"] = "len"
    /\ locals' = [locals EXCEPT ![s].buffer_size = Len(frame_buffer[s])]
    /\ WithExit(s, "detection", "checked")
    /\ UNCHANGED <<frame_buffer, pushed, source_pos, processor_fields,
                   outside_processor>>

\* line 372: a buffer found too short, and the sleep
LengthTooShort(s) ==
    /\ at[s]["detection"] = "checked"
    /\ ~(locals[s].buffer_size >= buffer_size)
    /\ at' = [at EXCEPT ![s]["detection"] = "out"]
    /\ UNCHANGED <<buffer_lock, locals, frame_buffer, pushed, source_pos,
                   processor_fields, outside_processor>>

\* lines 372-373 and 292: detect_violence is called and enters its with
\* block
SnapshotEnter(s) ==
    /\ locals[s].buffer_size >= buffer_size
    /\ WithEnter(s, "detection", "checked", "test")
    /\ UNCHANGED <<locals, frame_buffer, pushed, source_pos,
                   processor_fields, outside_processor>>

\* lines 293-294: return None from inside the with block, or go on
SnapshotTest(s) ==
    /\ at[s]["detection"] = "test"
    /\ IF BufferTooShort(frame_buffer[s], buffer_size)
       THEN WithExit(s, "detection", "out")
       ELSE /\ at' = [at EXCEPT ![s]["detection"] = "copy"]
            /\ UNCHANGED buffer_lock
    /\ UNCHANGED <<locals, frame_buffer, pushed, source_pos,
                   processor_fields, outside_processor>>

\* line 296, and the end of the with block: np.stack, the TritonClient and
\* predict follow outside it
SnapshotCopy(s) ==
    /\ at[s]["detection"] = "copy"
    /\ locals' = [locals EXCEPT ![s].frame_buffer_copy =
                                    Snapshot(frame_buffer[s])]
    /\ WithExit(s, "detection", "infer")
    /\ UNCHANGED <<frame_buffer, pushed, source_pos, processor_fields,
                   outside_processor>>

\* predict returns and detect_violence with it: frame_buffer_copy is
\* dropped.
SnapshotDropped(s) ==
    /\ at[s]["detection"] = "infer"
    /\ locals' = [locals EXCEPT ![s].frame_buffer_copy = Snapshot(<<>>)]
    /\ at' = [at EXCEPT ![s]["detection"] = "out"]
    /\ UNCHANGED <<buffer_lock, frame_buffer, pushed, source_pos,
                   processor_fields, outside_processor>>

\* start(), line 445
ClearEnter(s) ==
    /\ WithEnter(s, "loop", "out", "clear")
    /\ UNCHANGED <<locals, frame_buffer, pushed, source_pos,
                   processor_fields, outside_processor>>

\* line 446, and the end of the with block
ClearBuffer(s) ==
    /\ at[s]["loop"] = "clear"
    /\ frame_buffer' = [frame_buffer EXCEPT ![s] = <<>>]
    /\ locals' = [locals EXCEPT ![s].frame_buffer_copy = AfterRebind(@)]
    /\ WithExit(s, "loop", "out")
    /\ UNCHANGED <<pushed, source_pos, processor_fields, outside_processor>>

\* the frame WebSocket, line 1181
LatestEnter(s) ==
    /\ WithEnter(s, "loop", "out", "latest")
    /\ UNCHANGED <<locals, frame_buffer, pushed, source_pos,
                   processor_fields, outside_processor>>

\* lines 1182-1196, and the end of the with block: frame_buffer[-1] when
\* the buffer is not empty
LatestRead(s) ==
    /\ at[s]["loop"] = "latest"
    /\ locals' = [locals EXCEPT ![s].last_frame =
                     IF frame_buffer[s] # <<>>
                     THEN frame_buffer[s][Len(frame_buffer[s])] ELSE 0]
    /\ WithExit(s, "loop", "out")
    /\ UNCHANGED <<frame_buffer, pushed, source_pos, processor_fields,
                   outside_processor>>

NextLock ==
    \E s \in StreamIds :
        \/ PushEnter(s)
        \/ PushAppend(s)
        \/ PushTrim(s)
        \/ LengthEnter(s)
        \/ LengthRead(s)
        \/ LengthTooShort(s)
        \/ SnapshotEnter(s)
        \/ SnapshotTest(s)
        \/ SnapshotCopy(s)
        \/ SnapshotDropped(s)
        \/ ClearEnter(s)
        \/ ClearBuffer(s)
        \/ LatestEnter(s)
        \/ LatestRead(s)

\* The three threads of one stream at their with blocks, in any
\* interleaving, with the settings fixed.
SpecLock == Init /\ [][NextLock]_vars

\* C33: every read and write of the frame buffer of a stream is made by a
\* thread that holds buffer_lock of the stream, so no two threads are
\* inside a with block at once; a push is the append and the trim together
\* whatever the other threads do; and the window copied for inference
\* stays what it was when copied while frames are pushed and the buffer is
\* cleared.
C33_BufferUnderLock ==
    /\ [](\A s \in StreamIds : \A t \in LockUsers :
              InsideWith(at[s][t]) => buffer_lock[s] = t)
    /\ [][\A s \in StreamIds :
              /\ frame_buffer'[s] # frame_buffer[s]
                     => \E t \in LockUsers :
                            buffer_lock[s] = t /\ InsideWith(at[s][t])
              /\ (at[s]["capture"] = "trim" /\ at'[s]["capture"] = "out")
                     => frame_buffer'[s] =
                            PushFrame(locals[s].before, locals[s].frame,
                                      buffer_size)
              /\ (at[s]["detection"] = "infer"
                      /\ at'[s]["detection"] = "infer")
                     => locals'[s].frame_buffer_copy.frames
                            = locals[s].frame_buffer_copy.frames]_vars

\* the detection thread holds a window for inference that the buffer has
\* moved on from, while the capture thread is inside its with block and
\* the event-loop thread is kept out
C33_PushBesideSnapshot ==
    \E s \in StreamIds :
        /\ at[s]["detection"] = "infer"
        /\ locals[s].frame_buffer_copy.frames # <<>>
        /\ locals[s].frame_buffer_copy.frames # frame_buffer[s]
        /\ at[s]["capture"] = "trim"
        /\ buffer_lock[s] = "capture"

\* ------------------------------------------------------------ decimation

LongIntervals == {300, 1500, 3600}

\* The notification engine enabled, with its settings fixed and the limit
\* at its default.
InitSpacing ==
    /\ buffer_size = MaxCap
    /\ frame_skip = 1
    /\ confidence_threshold = 70
    /\ InitStreams
    /\ now = 0
    /\ enabled = TRUE
    /\ notification_interval \in LongIntervals
    /\ max_notifications = MaxNotificationsDefault
    /\ InitTelegram
    /\ InitHub
    /\ InitLock
    /\ call = NoCall

NextSpacing == Feed \/ SendFinalNotification

SpecSpacing == InitSpacing /\ [][NextSpacing]_vars

\* a continuing notification of stream s is emitted in this step
ContinuingEmitted(s) ==
    /\ Handled(s)
    /\ fed'.is_violence
    /\ s \in DOMAIN violence_events
    /\ Emitted(s, ContinuingKinds)

\* C35: in one episode the first continuing notification comes no earlier
\* than notification_interval after the "started" one, and every
\* continuing notification comes no earlier after the notification before
\* it than the interval required at each smaller count, the clamp of 1800
\* seconds applied.
C35_SpacingWidens ==
    [][\A s \in AlertStreams :
           ContinuingEmitted(s) =>
               LET c == violence_events[s].notification_count
                   elapsed == now' - last_notification_time[s]
               IN  /\ c = 0 =>
                          /\ last_notification_time[s]
                                 = violence_events[s].start_time
                          /\ elapsed >= notification_interval
                   /\ \A k \in 0..c :
                          2 * elapsed >=
                              Min(notification_interval * (2 + k), 3600)]_vars

\* C35 as the code has it: the first continuing notification comes no
\* earlier after the "started" one than notification_interval or 1800
\* seconds, whichever is less; and every continuing notification comes no
\* earlier after the notification before it than the interval required at
\* each smaller count, the clamp of 1800 seconds applied.
C35_SpacingWidensClamped ==
    [][\A s \in AlertStreams :
           ContinuingEmitted(s) =>
               LET c == violence_events[s].notification_count
                   elapsed == now' - last_notification_time[s]
               IN  /\ c = 0 =>
                          /\ last_notification_time[s]
                                 = violence_events[s].start_time
                          /\ elapsed >= Min(notification_interval, 1800)
                   /\ \A k \in 0..c :
                          2 * elapsed >=
                              Min(notification_interval * (2 + k), 3600)]_vars

\* the second continuing notification of an episode has just been emitted,
\* later after the first than the first was after "started"
C35_SecondContinuingLater ==
    \E s \in DOMAIN violence_events :
        /\ violence_events[s].notification_count = 2
        /\ last_notification_time[s] = now
        /\ Len(sent) = 3
        /\ \A k \in 2..3 : /\ sent[k].stream_id = s
                           /\ sent[k].kind \in ContinuingKinds
        /\ sent[3].seq = n_fed
        /\ now - violence_events[s].start_time
               > 2 * notification_interval

\* ------------------------------------------------ failed settings updates

\* POST /api/settings with save_settings() returning False (lines
\* 950-968): system_settings has been replaced at line 953, no stream is
\* restarted, and the HTTPException raised at line 966 is answered by the
\* except clause with status 400.
UpdateSettingsFails(bs, fs, th) ==
    /\ api.op = "idle"
    /\ buffer_size' = bs
    /\ frame_skip' = fs
    /\ confidence_threshold' = th
    /\ rejected' = [op |-> "update_settings", id |-> ""]
    /\ UNCHANGED <<stream_vars, now, telegram_vars, n_fed, fed, last_flag,
                   episodes, call, hub_vars, lock_vars>>

\* POST /api/settings/telegram with save_settings() returning False (lines
\* 977-988): telegram_service.update_settings is not called, the fields of
\* the service stay as they are.
UpdateTelegramSettingsFails == Rejects("update_telegram_settings", "")

\* The stream processor under settings updates that fail.
NextFailing ==
    \/ StreamNext
    \/ \E bs \in BufferSizes, fs \in FrameSkips, th \in Thresholds :
           UpdateSettingsFails(bs, fs, th)
    \/ UpdateTelegramSettingsFails

SpecFailing == Init /\ [][NextFailing]_vars

\* C36: a settings update that fails leaves the settings that were in
\* force: the values the capture thread, the detection thread and the
\* notification engine read are those of before the request.
C36_FailedUpdateKeepsSettings ==
    [][(/\ rejected'.op \in {"update_settings", "update_telegram_settings"}
        /\ rejected' # rejected) =>
           /\ UNCHANGED settings_vars
           /\ UNCHANGED <<enabled, notification_interval,
                          max_notifications>>]_vars

\* ------------------------------------------------- one worker of each kind

\* the capture threads of stream s that are inside the while loop of
\* run_detection_loop, and its detection threads inside that of
\* detection_loop
CaptureLooping(s) ==
    {i \in DOMAIN frame_threads[s] : frame_threads[s][i].pc = "read"}

DetectionLooping(s) ==
    {i \in DOMAIN detection_threads[s] :
         detection_threads[s][i].pc \in {"loop", "infer"}}

\* C37: whatever start(), stop(), failures of the source and joins that
\* time out have happened, at most one capture thread and at most one
\* detection thread of a stream are executing their loops: a thread of an
\* earlier run does not run beside the threads of a later start().
C37_OneWorkerOfEachKind ==
    \A s \in StreamIds :
        /\ Cardinality(CaptureLooping(s)) <= 1
        /\ Cardinality(DetectionLooping(s)) <= 1

\* ------------------------------------------- detection after a dead source

\* The capture thread of stream s has ended on a failure of the source:
\* no capture thread is alive and stop() has not been called since the
\* last start().
CaptureFailed(s) ==
    /\ frame_threads[s] # <<>>
    /\ \A i \in DOMAIN frame_threads[s] : ~Alive(frame_threads[s][i])
    /\ ~shutdown_event[s]

\* A detection thread of stream s takes a window and calls predict.
InferenceStarts(s) ==
    \E i \in DOMAIN detection_threads[s] :
        /\ detection_threads[s][i].pc = "loop"
        /\ i \in DOMAIN detection_threads'[s]
        /\ detection_threads'[s][i].pc = "infer"

\* C38: once the capture thread of a stream has ended on a failure of the
\* source, and until the next start(), no inference is started on the
\* window left in the buffer, so no further result is enqueued for it.
C38_NoInferenceAfterCaptureDied ==
    [][\A s \in StreamIds :
           (buffer_size >= 1 /\ CaptureFailed(s)) => ~InferenceStarts(s)]_vars

\* ------------------------------------------------------- the order of feeding

\* C39: the orchestrator hands the results of a stream to
\* handle_detection in the order the detection thread produced them,
\* oldest first, also when one cycle has drained several results of the
\* stream: no result is fed after a newer result of its stream.
C39_FedOldestFirst ==
    [][orch.pc = "feed" =>
           \A j \in 1..(orch.k - 1) :
               orch.detections[j].stream_id
                       = orch.detections[orch.k].stream_id
                   => orch.detections[j].timestamp
                          <= orch.detections[orch.k].timestamp]_vars

\* ------------------------------------------------ notifications disabled

\* C40: while notifications are disabled, handle_detection emits nothing,
\* creates no final notification and leaves the episode records and the
\* last-notification clocks of all streams as they are, whatever the
\* detection; and a change of the settings leaves them as they are too, so
\* an episode that was open when notifications were disabled is open with
\* the same start time and count when they are enabled again.
C40_DisabledChangesNothing ==
    [][/\ \A s \in AlertStreams :
              (Handled(s) /\ ~enabled) =>
                  /\ violence_events' = violence_events
                  /\ last_notification_time' = last_notification_time
                  /\ sent' = sent
                  /\ final_tasks' = final_tasks
       /\ <<enabled, notification_interval, max_notifications>>'
              # <<enabled, notification_interval, max_notifications>>
              => /\ violence_events' = violence_events
                 /\ last_notification_time' = last_notification_time]_vars

\* notifications are enabled again and the episode of a stream is still
\* open with the start time and the clock it had, although the last
\* detection of the stream, fed while they were disabled, was not violent
C40_EpisodeKeptAcrossDisabled ==
    \E s \in DOMAIN violence_events :
        /\ enabled
        /\ ~last_flag[s]
        /\ fed.stream_id = s
        /\ violence_events[s].start_time < now
        /\ violence_events[s].notification_count = 0
        /\ last_notification_time[s] = violence_events[s].start_time

====
